---- MODULE Spec2Model ----
(***************************************************************************)
(* Model of the analysis-orchestration side of RogerAI:                    *)
(*   - GeminiVideoAnalyzer   (web-app/backend/gemini_analyzer.py)          *)
(*   - VideoAnalyzerBase     (video_analyzer_base.py)                      *)
(*   - VideoAnalysisPipeline (web-app/backend/video_analysis_pipeline.py)  *)
(*   - the /analyze endpoint (web-app/backend/main.py)                     *)
(* and of the pose-estimation side:                                        *)
(*   - VideoPoseProcessor    (video_pose_processor.py)                     *)
(*   - PoseEstimatorFactory, VideoAnalyzerFactory                          *)
(*   - timestamp_to_seconds, extract_frame_at_timestamp (main.py)          *)
(*   - parse_analysis_json_and_extract_frames, get_video_rotation,         *)
(*     rotate_frame, slow_down_video (main.py)                             *)
(* Two pipelines of one process, each with its own API key, share the      *)
(* google.generativeai module: the variable fleet.                         *)
(* The remote service (google.generativeai) is the environment: every call *)
(* to it has an outcome drawn nondeterministically by the calling action.  *)
(***************************************************************************)
EXTENDS Integers, Sequences, FiniteSets, TLC

VARIABLES
    is_initialized,   \* VideoAnalyzerBase.is_initialized
    uploaded_files,   \* GeminiVideoAnalyzer.uploaded_files (its keys)
    uploaded_videos,  \* VideoAnalysisPipeline.uploaded_videos (a list)
    remote_files,     \* files held by the remote service
    next_id,          \* number of files the remote service has created
    delete_attempts,  \* per handle: genai.delete_file calls made so far
    saved,            \* stems s with analysis_<s>.json written in output_dir
    trace,            \* calls made by the operation that ran last, in order
    ret,              \* outcome of the operation that ran last
    batch,            \* batch_analyze in progress: configs, index, results
    proc,             \* VideoPoseProcessor: its detector and its last pass
    reg,              \* the two factories' registries and their last call
    call,             \* the last call of a helper function of main.py
    fleet             \* two pipelines, their analyzers and the genai module

vars == <<is_initialized, uploaded_files, uploaded_videos, remote_files,
          next_id, delete_attempts, saved, trace, ret, batch, proc, reg, call,
          fleet>>

----------------------------------------------------------------------------
(* Bounds *)

MaxUploads == 2

MaxDeleteAttempts == 2

MaxBatch == 3

\* videos of up to MaxShort frames with every pattern of detections, and
\* videos of LongFrames frames
MaxShort == 3

LongFrames == 100

\* timestamps have up to MaxFields fields separated by ':'
MaxFields == 4

Handles == 1..MaxUploads

None == 0

----------------------------------------------------------------------------
(* Files on disk and their names.  ext is Path.suffix without the dot.     *)

\* str.lower() on the suffixes that occur
Lower(e) == CASE e = "MP4" -> "mp4" [] OTHER -> e

Files ==
    { [stem |-> "a", ext |-> "mp4", exists |-> TRUE],
      [stem |-> "b", ext |-> "MP4", exists |-> TRUE],
      [stem |-> "c", ext |-> "wmv", exists |-> TRUE],
      [stem |-> "d", ext |-> "txt", exists |-> TRUE],
      [stem |-> "e", ext |-> "mp4", exists |-> FALSE] }

Stems == { f.stem : f \in Files }

supported_formats == {"mp4", "avi", "mov", "mkv", "webm"}

allowed_extensions == {"mp4", "avi", "mov", "mkv", "wmv", "flv", "webm"}

\* the suffix is not looked at
validate_video_file_exists_only(file) ==
    IF ~file.exists THEN FALSE ELSE TRUE

validate_video_file(file) ==
    IF ~file.exists THEN FALSE
    ELSE IF Lower(file.ext) \notin supported_formats THEN FALSE
    ELSE TRUE

----------------------------------------------------------------------------
(* The state the handlers work on, as one record, and the call log.        *)

World ==
    [ is_initialized  |-> is_initialized,
      uploaded_files  |-> uploaded_files,
      uploaded_videos |-> uploaded_videos,
      remote_files    |-> remote_files,
      next_id         |-> next_id,
      delete_attempts |-> delete_attempts,
      saved           |-> saved,
      trace           |-> << >> ]

Ev(op, h, ok) == [op |-> op, h |-> h, ok |-> ok]

Log(w, e) == [w EXCEPT !.trace = Append(@, e)]

\* r is the outcome of a callee run on w; the call itself is logged before
\* the calls the callee made.
Call(w, op, h, ok, r) ==
    [r EXCEPT !.w.trace =
        Append(w.trace, Ev(op, h, ok))
            \o SubSeq(r.w.trace, Len(w.trace) + 1, Len(r.w.trace))]

----------------------------------------------------------------------------
(* GeminiVideoAnalyzer.  Each operator returns [w |-> state, val |-> value]. *)

\* ok: genai.configure, GenerativeModel and the test generate_content all
\* succeeded and gave a response.  A failure leaves is_initialized as it was.
GeminiInitialize(w, ok) ==
    LET w1 == Log(w, Ev("genai.generate_content", None, ok))
    IN  IF ok THEN [w |-> [w1 EXCEPT !.is_initialized = TRUE], val |-> TRUE]
        ELSE [w |-> w1, val |-> FALSE]

\* is_initialized is not looked at
GeminiUploadVideoNoInitCheck(w0, file, out) ==
    LET w == Log(w0, Ev("validate_video_file", None,
                        validate_video_file(file)))
    IN   IF ~validate_video_file(file) THEN [w |-> w, val |-> None]
    ELSE IF out = "raise"
         THEN [w |-> Log(w, Ev("genai.upload_file", None, FALSE)), val |-> None]
    ELSE LET file_id == w.next_id + 1
             w1 == [Log(w, Ev("genai.upload_file", file_id, TRUE)) EXCEPT
                       !.next_id = file_id,
                       !.remote_files = @ \cup {file_id}]
         IN  IF out = "failed" THEN [w |-> w1, val |-> None]
             ELSE [w |-> [w1 EXCEPT !.uploaded_files = @ \cup {file_id}],
                   val |-> file_id]

\* out: what genai.upload_file and the polling loop end in:
\*   "active" the file is ready, "failed" its state is FAILED,
\*   "raise"  upload_file raised, no file was created.
GeminiUploadVideo(w0, file, out) ==
    IF ~w0.is_initialized THEN [w |-> w0, val |-> None]
    ELSE LET w == Log(w0, Ev("validate_video_file", None,
                             validate_video_file(file)))
    IN   IF ~validate_video_file(file) THEN [w |-> w, val |-> None]
    ELSE IF out = "raise"
         THEN [w |-> Log(w, Ev("genai.upload_file", None, FALSE)), val |-> None]
    ELSE LET file_id == w.next_id + 1
             w1 == [Log(w, Ev("genai.upload_file", file_id, TRUE)) EXCEPT
                       !.next_id = file_id,
                       !.remote_files = @ \cup {file_id}]
         IN  IF out = "failed" THEN [w |-> w1, val |-> None]
             ELSE [w |-> [w1 EXCEPT !.uploaded_files = @ \cup {file_id}],
                   val |-> file_id]

\* a handle that is not tracked is sent to the model all the same
GeminiAnalyzeVideoAnyHandle(w, video_ref, out) ==
    IF ~w.is_initialized THEN [w |-> w, val |-> FALSE]
    ELSE [w |-> Log(w, Ev("genai.generate_content", video_ref, out = "text")),
          val |-> out = "text"]

\* out: what model.generate_content ends in: "text" a response with text,
\* "empty" no response or no text, "raise" an exception.  val: a result
\* dictionary is returned (otherwise None).
GeminiAnalyzeVideo(w, video_ref, out) ==
    IF ~w.is_initialized THEN [w |-> w, val |-> FALSE]
    ELSE IF video_ref \notin w.uploaded_files THEN [w |-> w, val |-> FALSE]
    ELSE [w |-> Log(w, Ev("genai.generate_content", video_ref, out = "text")),
          val |-> out = "text"]

\* a handle that is not tracked is an error
GeminiCleanupVideoUntrackedFails(w, video_ref, ok) ==
    IF video_ref \notin w.uploaded_files THEN [w |-> w, val |-> FALSE]
    ELSE LET w1 == [Log(w, Ev("genai.delete_file", video_ref, ok)) EXCEPT
                       !.delete_attempts[video_ref] = @ + 1]
         IN  IF ok THEN [w |-> [w1 EXCEPT
                                   !.remote_files = @ \ {video_ref},
                                   !.uploaded_files = @ \ {video_ref}],
                         val |-> TRUE]
             ELSE [w |-> w1, val |-> FALSE]

\* ok: genai.delete_file returned (otherwise it raised).
GeminiCleanupVideo(w, video_ref, ok) ==
    IF video_ref \notin w.uploaded_files THEN [w |-> w, val |-> TRUE]
    ELSE LET w1 == [Log(w, Ev("genai.delete_file", video_ref, ok)) EXCEPT
                       !.delete_attempts[video_ref] = @ + 1]
         IN  IF ok THEN [w |-> [w1 EXCEPT
                                   !.remote_files = @ \ {video_ref},
                                   !.uploaded_files = @ \ {video_ref}],
                         val |-> TRUE]
             ELSE [w |-> w1, val |-> FALSE]

\* list(self.uploaded_files.keys()): insertion order, which is the order of
\* upload, i.e. ascending file id.
RECURSIVE KeysInOrder(_)
KeysInOrder(S) ==
    IF S = {} THEN << >>
    ELSE LET m == CHOOSE x \in S : \A y \in S : x <= y
         IN  <<m>> \o KeysInOrder(S \ {m})

\* oks[h]: the outcome of genai.delete_file for handle h in this pass.
RECURSIVE GeminiCleanupLoop(_, _, _)
GeminiCleanupLoop(w, video_refs, oks) ==
    IF video_refs = << >> THEN w
    ELSE GeminiCleanupLoop(
             GeminiCleanupVideo(w, Head(video_refs), oks[Head(video_refs)]).w,
             Tail(video_refs), oks)

GeminiCleanupAllVideos(w, oks) ==
    GeminiCleanupLoop(w, KeysInOrder(w.uploaded_files), oks)

GeminiCleanup(w, oks) ==
    [GeminiCleanupAllVideos(w, oks) EXCEPT !.is_initialized = FALSE]

----------------------------------------------------------------------------
(* VideoAnalysisPipeline.  analyze_video returns                            *)
(* [w |-> state, status |-> "returned" | "raised", err |-> message].        *)

RECURSIVE Remove(_, _)
Remove(list, x) ==
    IF list = << >> THEN << >>
    ELSE IF Head(list) = x THEN Tail(list)
    ELSE <<Head(list)>> \o Remove(Tail(list), x)

InList(x, list) == \E i \in 1..Len(list) : list[i] = x

Raised(w, err) == [w |-> w, status |-> "raised", err |-> err]

Returned(w) == [w |-> w, status |-> "returned", err |-> ""]

\* ok: analysis_<stem>.json was written (otherwise the error is logged).
SaveAnalysisResult(w, file, ok) ==
    [Log(w, Ev("save", None, ok)) EXCEPT
        !.saved = IF ok THEN @ \cup {file.stem} ELSE @]

\* the handle is forgotten only when the analyzer answered true
CleanupAfterKeepOnFailure(w, video_ref, ok) ==
    LET r  == GeminiCleanupVideo(w, video_ref, ok)
        w1 == Call(w, "a.cleanup_video", video_ref, r.val, r).w
    IN  IF r.val /\ InList(video_ref, w1.uploaded_videos)
        THEN [w1 EXCEPT !.uploaded_videos = Remove(@, video_ref)]
        ELSE w1

\* lines 121-124: the analyzer's answer is not looked at.
CleanupAfter(w, video_ref, ok) ==
    LET r  == GeminiCleanupVideo(w, video_ref, ok)
        w1 == Call(w, "a.cleanup_video", video_ref, r.val, r).w
    IN  IF InList(video_ref, w1.uploaded_videos)
        THEN [w1 EXCEPT !.uploaded_videos = Remove(@, video_ref)]
        ELSE w1

\* the cleanup is done before the result is saved
FinishAnalysisCleanupFirst(w, file, video_ref, cleanup_after, env) ==
    LET w1 == IF cleanup_after THEN CleanupAfter(w, video_ref, env.del) ELSE w
    IN  Returned(SaveAnalysisResult(w1, file, env.save))

\* lines 108-127, once the analyzer has returned a result.
FinishAnalysis(w, file, video_ref, cleanup_after, env) ==
    LET w1 == SaveAnalysisResult(w, file, env.save)
    IN  IF cleanup_after THEN Returned(CleanupAfter(w1, video_ref, env.del))
        ELSE Returned(w1)

\* lines 99-106, once the upload has returned video_ref.
AnalyzeUploaded(w, file, video_ref, cleanup_after, env) ==
    LET w1 == [w EXCEPT !.uploaded_videos = Append(@, video_ref)]
        r  == GeminiAnalyzeVideo(w1, video_ref, env.analyze)
        w2 == Call(w1, "a.analyze_video", video_ref, r.val, r).w
    IN  IF ~r.val THEN Raised(w2, "Failed to analyze video")
        ELSE FinishAnalysis(w2, file, video_ref, cleanup_after, env)

\* lines 89-93, once initialize has returned true.
UploadAndAnalyze(w, file, cleanup_after, env) ==
    LET r  == GeminiUploadVideo(w, file, env.upload)
        w1 == Call(w, "a.upload_video", r.val, r.val # None, r).w
    IN  IF r.val = None THEN Raised(w1, "Failed to upload video")
        ELSE AnalyzeUploaded(w1, file, r.val, cleanup_after, env)

\* the answer of initialize is not looked at
PipelineAnalyzeVideoIgnoreInit(w, file, cleanup_after, env) ==
    IF ~file.exists THEN Raised(w, "Video file not found")
    ELSE LET r  == GeminiInitialize(w, env.init)
             w1 == Call(w, "a.initialize", None, r.val, r).w
         IN  UploadAndAnalyze(w1, file, cleanup_after, env)

PipelineAnalyzeVideo(w, file, cleanup_after, env) ==
    IF ~file.exists THEN Raised(w, "Video file not found")
    ELSE LET r  == GeminiInitialize(w, env.init)
             w1 == Call(w, "a.initialize", None, r.val, r).w
         IN  IF ~r.val THEN Raised(w1, "Failed to initialize video analyzer")
             ELSE UploadAndAnalyze(w1, file, cleanup_after, env)

\* the loop ends at the first cleanup that fails
RECURSIVE PipelineCleanupLoopStopOnFailure(_, _, _)
PipelineCleanupLoopStopOnFailure(w, video_refs, oks) ==
    IF video_refs = << >> THEN w
    ELSE LET video_ref == Head(video_refs)
             r  == GeminiCleanupVideo(w, video_ref, oks[video_ref])
             w1 == Call(w, "a.cleanup_video", video_ref, r.val, r).w
         IN  IF ~r.val THEN w1
             ELSE PipelineCleanupLoopStopOnFailure(
                      [w1 EXCEPT !.uploaded_videos = Remove(@, video_ref)],
                      Tail(video_refs), oks)

\* oks[h]: the outcome of genai.delete_file for handle h in this pass.
RECURSIVE PipelineCleanupLoop(_, _, _)
PipelineCleanupLoop(w, video_refs, oks) ==
    IF video_refs = << >> THEN w
    ELSE LET video_ref == Head(video_refs)
             r  == GeminiCleanupVideo(w, video_ref, oks[video_ref])
             w1 == Call(w, "a.cleanup_video", video_ref, r.val, r).w
         IN  PipelineCleanupLoop(
                 [w1 EXCEPT !.uploaded_videos = Remove(@, video_ref)],
                 Tail(video_refs), oks)

PipelineCleanupAllVideos(w, oks) ==
    PipelineCleanupLoop(w, w.uploaded_videos, oks)

\* oks1, oks2: the outcomes of genai.delete_file in the pipeline's pass and
\* in the analyzer's own pass.
PipelineCleanup(w, oks1, oks2) ==
    LET w1 == PipelineCleanupAllVideos(w, oks1)
    IN  GeminiCleanup(Log(w1, Ev("a.cleanup", None, TRUE)), oks2)

\* additional data: None, or a dict given by its set of keys
NoData == [none |-> TRUE, keys |-> {}]

Data(keys) == [none |-> FALSE, keys |-> keys]

\* The supplementary context of analyze_video.  keypoints_json: "None",
\* or a path that is "missing", "unreadable" (json.load raises) or
\* "readable"; custom_data: None or a dict.
Contexts ==
    { [keypoints_json |-> k, custom_data |-> c] :
        k \in {"None", "missing", "unreadable", "readable"},
        c \in {NoData, Data({}), Data({"player"})} }

\* VideoAnalyzerBase.prepare_additional_data
prepare_additional_data(keypoints_json, custom_data) ==
    Data((IF keypoints_json = "readable" THEN {"keypoints"} ELSE {})
         \cup (IF ~custom_data.none /\ custom_data.keys # {}
               THEN custom_data.keys ELSE {}))

\* line 97: what analyze_video passes to the analyzer
PipelineAdditionalData(keypoints_json, custom_data) == NoData

\* line 114
AdditionalDataProvided(additional_data) ==
    ~additional_data.none /\ Cardinality(additional_data.keys) > 0

\* The outcomes of the calls one analyze_video run makes.  Outcomes of calls
\* that are not reached are not drawn (they are fixed to the first value).
AnalyzeEnv ==
    { [init |-> i, upload |-> u, analyze |-> a, save |-> s, del |-> d] :
        i \in BOOLEAN, u \in {"active", "failed", "raise"},
        a \in {"text", "empty", "raise"}, s \in BOOLEAN, d \in BOOLEAN }

ReachedEnv(file, cleanup_after) ==
    { e \in AnalyzeEnv :
        /\ (~file.exists => e.init)
        /\ (~e.init \/ ~validate_video_file(file) => e.upload = "active")
        /\ (e.upload # "active" \/ ~validate_video_file(file)
               => e.analyze = "text")
        /\ (e.analyze # "text" \/ ~validate_video_file(file) => e.save)
        /\ (~e.save \/ ~cleanup_after \/ ~validate_video_file(file) => e.del) }

NoEnv ==
    [init |-> TRUE, upload |-> "active", analyze |-> "text", save |-> TRUE,
     del |-> TRUE]

\* The outcomes of genai.delete_file for the handles in S (the others are
\* not deleted in the pass, their outcome is fixed to TRUE).
DeleteOutcomes(S) ==
    { oks \in [Handles -> BOOLEAN] : \A h \in Handles \ S : oks[h] }

Range(list) == { list[i] : i \in 1..Len(list) }

----------------------------------------------------------------------------
(* batch_analyze, one loop iteration at a time.                            *)

\* configs: the configurations reached so far (the list is drawn one
\* configuration at a time), n: the length of the list, i: the number of
\* configurations processed, results: the dictionary returned, keyed by
\* Path(video_path).stem, log: the assignments made to it, in order.
NoBatch ==
    [ active |-> FALSE, n |-> 0, configs |-> << >>,
      cleanup_after_each |-> TRUE, i |-> 0,
      results |-> [s \in Stems |-> "absent"], log |-> << >> ]

\* an exception of analyze_video ends the loop
RecordItemAbortOnError(b, file, r) ==
    IF r.status = "raised" THEN [b EXCEPT !.i = b.n]
    ELSE [b EXCEPT !.i = @ + 1,
                   !.configs = Append(@, file),
                   !.results[file.stem] = "result",
                   !.log = Append(@, [key |-> file.stem, kind |-> "result",
                                      err |-> r.err])]

\* lines 157-169 for one configuration: r is what analyze_video ended in.
RecordItem(b, file, r) ==
    LET kind == IF r.status = "raised" THEN "error" ELSE "result"
    IN  [b EXCEPT !.i = @ + 1,
                  !.configs = Append(@, file),
                  !.results[file.stem] = kind,
                  !.log = Append(@, [key |-> file.stem, kind |-> kind,
                                     err |-> r.err])]

----------------------------------------------------------------------------
(* VideoPoseProcessor.process_video.  Numbers that the code divides are    *)
(* kept as fractions [num, den].                                           *)

Rat(n, d) == [num |-> n, den |-> d]

\* a = b and a <= b for fractions with positive denominators
RatEq(a, b) == a.num * b.den = b.num * a.den

RatLe(a, b) == a.num * b.den <= b.num * a.den

\* A video file as cv2 sees it: exists (os.path.exists), opens
\* (cap.isOpened()), fps_c (CAP_PROP_FPS in hundredths of a frame per
\* second), count (CAP_PROP_FRAME_COUNT), n (the frames cap.read() yields),
\* poses (the frames in which the detector finds a pose), fault (a call that
\* raises while frame number fault.at is processed).
NoFault == [kind |-> "none", at |-> 0]

Faults ==
    {NoFault} \cup { [kind |-> k, at |-> a] :
                        k \in {"read", "detect", "write"}, a \in {0, 1} }

FrameRates == {0, 50, 2997, 3000}

PoseSets(n) ==
    IF n <= MaxShort THEN SUBSET (0..(n - 1))
    ELSE { {}, 0..(n - 1), { k \in 0..(n - 1) : k % 2 = 0 } }

NoVideo ==
    [exists |-> FALSE, opens |-> FALSE, fps_c |-> 0, count |-> 0, n |-> 0,
     poses |-> {}, empties |-> {}, fault |-> NoFault]

Decodable ==
    UNION { { [exists |-> TRUE, opens |-> TRUE, fps_c |-> f, count |-> c,
               n |-> n, poses |-> ps, empties |-> {}, fault |-> ft] :
                f \in FrameRates, c \in {0, 2, n}, ps \in PoseSets(n),
                ft \in Faults } :
            n \in (0..MaxShort) \cup {LongFrames} }

Videos ==
    Decodable \cup { [NoVideo EXCEPT !.exists = TRUE], NoVideo }

\* Videos seen by a detector that also gives results that are not None and
\* hold nothing (an empty dict): empties the frames for which it does.  The
\* detectors of models/ return None or a dict with keypoints.
EmptyVideos ==
    UNION { { [exists |-> TRUE, opens |-> TRUE, fps_c |-> 3000, count |-> n,
               n |-> n, poses |-> { k \in 0..(n - 1) : gives[k] = "pose" },
               empties |-> { k \in 0..(n - 1) : gives[k] = "empty" },
               fault |-> NoFault] :
                gives \in [0..(n - 1) -> {"pose", "empty", "None"}] } :
            n \in 1..MaxShort }

\* the videos a processor with a detector of class model_class is run on
DetectorVideos(model_class) ==
    IF model_class = "CustomPoseEstimator" THEN EmptyVideos ELSE Videos

\* line 125: what detect_pose returns for frame k
DetectPose(video, k) ==
    IF k \in video.poses THEN "pose"
    ELSE IF k \in video.empties THEN "empty"
    ELSE "None"

\* the processor as the constructor leaves it, before a model is chosen
NoProc ==
    [ status |-> "none", err |-> "", model_class |-> "",
      save_video |-> FALSE, save_keypoints |-> FALSE,
      est_init |-> FALSE, video |-> NoVideo,
      cap_open |-> FALSE, writer_open |-> FALSE,
      fps |-> 0, total_frames |-> 0,
      frame_count |-> 0, pose_detected_frames |-> 0,
      frame_data |-> << >>, written |-> << >>,
      stats |-> [total_frames |-> 0, frames_with_pose |-> 0,
                 pose_detection_rate |-> Rat(0, 1)],
      keypoints |-> "none" ]

Fail(p, err) == [p EXCEPT !.err = err]

Faulty(p, kind) ==
    p.video.fault.kind = kind /\ p.video.fault.at = p.frame_count

\* lines 153-162, with frame_count already incremented
Progress(p) ==
    IF p.frame_count % 100 = 0 \/ p.frame_count = p.total_frames
    THEN IF p.total_frames = 0 THEN Fail(p, "ZeroDivisionError") ELSE p
    ELSE p

\* a frame without a pose is not written
ProcessFrameSkipMiss(p) ==
    LET k         == p.frame_count
        pose_data == DetectPose(p.video, k)
        pose      == pose_data = "pose"
    IN  IF Faulty(p, "detect") THEN Fail(p, "detect_pose")
        ELSE IF p.fps = 0 THEN Fail(p, "ZeroDivisionError")
        ELSE IF p.save_video /\ Faulty(p, "write") THEN Fail(p, "write")
        ELSE Progress(
               [p EXCEPT
                  !.frame_data = Append(@,
                       [frame_number |-> k, timestamp |-> Rat(k, p.fps),
                        pose_detected |-> pose_data # "None",
                        pose_data |-> IF pose THEN pose_data ELSE "None"]),
                  !.pose_detected_frames = IF pose THEN @ + 1 ELSE @,
                  !.written = IF p.save_video /\ pose
                              THEN Append(@, [src |-> k, annotated |-> pose])
                              ELSE @,
                  !.frame_count = @ + 1])

\* lines 122-162: one frame that cap.read() has returned.  pose_detected
\* is 'pose_data is not None' (133); pose: the test 'if pose_data' (137),
\* which an empty dict fails
ProcessFrame(p) ==
    LET k         == p.frame_count
        pose_data == DetectPose(p.video, k)
        pose      == pose_data = "pose"
    IN  IF Faulty(p, "detect") THEN Fail(p, "detect_pose")
        ELSE IF p.fps = 0 THEN Fail(p, "ZeroDivisionError")
        ELSE IF p.save_video /\ Faulty(p, "write") THEN Fail(p, "write")
        ELSE Progress(
               [p EXCEPT
                  !.frame_data = Append(@,
                       [frame_number |-> k, timestamp |-> Rat(k, p.fps),
                        pose_detected |-> pose_data # "None",
                        pose_data |-> IF pose THEN pose_data ELSE "None"]),
                  !.pose_detected_frames = IF pose THEN @ + 1 ELSE @,
                  !.written = IF p.save_video
                              THEN Append(@, [src |-> k, annotated |-> pose])
                              ELSE @,
                  !.frame_count = @ + 1])

\* lines 164-169
Finally(p) ==
    [p EXCEPT !.cap_open = FALSE, !.writer_open = FALSE, !.est_init = FALSE]

\* lines 171-195; kp_ok: the keypoints file could be written
Statistics(p, kp_ok) ==
    [p EXCEPT
       !.status = "returned",
       !.stats = [total_frames |-> p.total_frames,
                  frames_with_pose |-> p.pose_detected_frames,
                  pose_detection_rate |->
                      IF p.total_frames > 0
                      THEN Rat(p.pose_detected_frames, p.total_frames)
                      ELSE Rat(0, 1)],
       !.keypoints = IF ~p.save_keypoints THEN "none"
                     ELSE IF kp_ok THEN "saved" ELSE "failed"]

\* lines 117-195: one iteration of the loop; when cap.read() has no frame
\* or a call raises, the finally block and what follows it
LoopIteration(p, kp_ok) ==
    IF Faulty(p, "read") THEN [Finally(Fail(p, "read")) EXCEPT !.status = "raised"]
    ELSE IF p.frame_count >= p.video.n THEN Statistics(Finally(p), kp_ok)
    ELSE LET p1 == ProcessFrame(p)
         IN  IF p1.err # "" THEN [Finally(p1) EXCEPT !.status = "raised"]
             ELSE p1

\* lines 77-114: up to the loop; init_ok: pose_estimator.initialize()
\* returned True
StartProcessVideo(p, video, init_ok) ==
    IF ~video.exists
    THEN [p EXCEPT !.video = video, !.status = "raised",
                   !.err = "Video file not found"]
    ELSE IF ~init_ok
    THEN [p EXCEPT !.video = video, !.status = "raised",
                   !.err = "Failed to initialize pose estimator"]
    ELSE IF ~video.opens
    THEN [p EXCEPT !.video = video, !.est_init = TRUE, !.status = "raised",
                   !.err = "Could not open video file"]
    ELSE [p EXCEPT !.video = video, !.est_init = TRUE, !.status = "loop",
                   !.cap_open = TRUE,
                   !.fps = video.fps_c \div 100,
                   !.total_frames = video.count,
                   !.writer_open = p.save_video]

----------------------------------------------------------------------------
(* PoseEstimatorFactory and VideoAnalyzerFactory.  A name is a sequence of *)
(* characters; a class is [name, base, abstract]: base the interface class *)
(* it inherits from, abstract whether abstract methods are left            *)
(* unimplemented (such a class cannot be instantiated).                    *)

Letters ==
    <<"a", "b", "c", "d", "e", "f", "g", "h", "i", "j", "k", "l", "m",
      "n", "o", "p", "q", "r", "s", "t", "u", "v", "w", "x", "y", "z">>

Capitals ==
    <<"A", "B", "C", "D", "E", "F", "G", "H", "I", "J", "K", "L", "M",
      "N", "O", "P", "Q", "R", "S", "T", "U", "V", "W", "X", "Y", "Z">>

LowerChar(c) ==
    IF \E i \in 1..26 : Capitals[i] = c
    THEN Letters[CHOOSE i \in 1..26 : Capitals[i] = c]
    ELSE c

UpperChar(c) ==
    IF \E i \in 1..26 : Letters[i] = c
    THEN Capitals[CHOOSE i \in 1..26 : Letters[i] = c]
    ELSE c

\* str.lower()
StrLower(name) == [i \in 1..Len(name) |-> LowerChar(name[i])]

StrUpper(name) == [i \in 1..Len(name) |-> UpperChar(name[i])]

\* the spellings of name that differ from it in the case of letters only
CaseVariants(name) ==
    { [i \in 1..Len(name) |-> IF i \in U THEN UpperChar(name[i])
                              ELSE LowerChar(name[i])] :
        U \in SUBSET (1..Len(name)) }

Class(name, base, abstract) ==
    [name |-> name, base |-> base, abstract |-> abstract]

MediaPipePoseEstimator ==
    Class("MediaPipePoseEstimator", "PoseEstimatorBase", FALSE)

DummyPoseEstimator == Class("DummyPoseEstimator", "PoseEstimatorBase", FALSE)

GeminiVideoAnalyzer == Class("GeminiVideoAnalyzer", "VideoAnalyzerBase", FALSE)

\* classes a caller of register_model / register_analyzer may pass: a
\* complete subclass, a subclass that leaves abstract methods unimplemented,
\* and a class that does not inherit from the interface
CallerClasses ==
    { Class("CustomPoseEstimator", "PoseEstimatorBase", FALSE),
      Class("PartialPoseEstimator", "PoseEstimatorBase", TRUE),
      Class("CustomVideoAnalyzer", "VideoAnalyzerBase", FALSE),
      Class("PartialVideoAnalyzer", "VideoAnalyzerBase", TRUE),
      Class("object", "object", FALSE) }

issubclass(class, base) == class.base = base

n_mediapipe == <<"m", "e", "d", "i", "a", "p", "i", "p", "e">>

n_mp == <<"m", "p">>

n_dummy == <<"d", "u", "m", "m", "y">>

n_test == <<"t", "e", "s", "t">>

n_gemini == <<"g", "e", "m", "i", "n", "i">>

n_gemini_flash ==
    n_gemini \o <<"-", "2", ".", "0", "-", "f", "l", "a", "s", "h", "-",
                  "e", "x", "p">>

n_gemini_pro == n_gemini \o <<"-", "2", ".", "5", "-", "p", "r", "o">>

n_google == <<"g", "o", "o", "g", "l", "e">>

\* names that are in neither registry at the start
n_my == <<"m", "y">>

n_yolo == <<"y", "o", "l", "o">>

_models ==
    [k \in {n_mediapipe, n_mp, n_dummy, n_test} |->
        IF k \in {n_mediapipe, n_mp} THEN MediaPipePoseEstimator
        ELSE DummyPoseEstimator]

_analyzers ==
    [k \in {n_gemini, n_gemini_flash, n_gemini_pro, n_google} |->
        GeminiVideoAnalyzer]

\* what a call of a factory gives back: status "returned" or "raised", val
\* the class name of the instance returned ("None" for no instance),
\* model_name the keyword argument the factory has added ("" for none)
Made(registry, status, val, model_name) ==
    [registry |-> registry, status |-> status, val |-> val,
     model_name |-> model_name]

\* model_class(**kwargs)
Instantiate(registry, class, model_name) ==
    IF class.abstract THEN Made(registry, "raised", "TypeError", model_name)
    ELSE Made(registry, "returned", class.name, model_name)

create_estimator(registry, name) ==
    LET model_name == StrLower(name)
    IN  IF model_name \notin DOMAIN registry
        THEN Made(registry, "returned", "None", "")
        ELSE Instantiate(registry, registry[model_name], "")

register_model(registry, name, model_class) ==
    IF ~issubclass(model_class, "PoseEstimatorBase")
    THEN Made(registry, "raised", "ValueError", "")
    ELSE Made([k \in (DOMAIN registry) \cup {StrLower(name)} |->
                  IF k = StrLower(name) THEN model_class ELSE registry[k]],
              "returned", "None", "")

create_analyzer(registry, name) ==
    LET analyzer_name == StrLower(name)
    IN  IF analyzer_name \notin DOMAIN registry
        THEN Made(registry, "returned", "None", "")
        ELSE Instantiate(registry, registry[analyzer_name],
                 IF analyzer_name = n_gemini_pro THEN "gemini-2.5-pro"
                 ELSE IF analyzer_name = n_gemini_flash
                      THEN "gemini-2.0-flash-exp"
                 ELSE "")

register_analyzer(registry, name, analyzer_class) ==
    IF ~issubclass(analyzer_class, "VideoAnalyzerBase")
    THEN Made(registry, "raised", "ValueError", "")
    ELSE Made([k \in (DOMAIN registry) \cup {StrLower(name)} |->
                  IF k = StrLower(name) THEN analyzer_class ELSE registry[k]],
              "returned", "None", "")

\* the names the factories are called with
CreateNames ==
    CaseVariants(n_mp) \cup CaseVariants(n_my)
        \cup { StrUpper(n_mediapipe), n_test, n_yolo, n_gemini,
               n_gemini_flash, StrUpper(n_gemini_pro),
               <<"G", "o", "o", "g", "l", "e">> }

RegisterNames == { n_my, <<"M", "y">>, StrUpper(n_mp) }

\* the registries as the class definitions leave them, and the last call:
\* op, name and class are its name and arguments
NoReg ==
    [ models |-> _models, analyzers |-> _analyzers, op |-> "none",
      name |-> << >>, class |-> Class("", "", FALSE),
      status |-> "returned", val |-> "None", model_name |-> "" ]

----------------------------------------------------------------------------
(* Helper functions of main.py.  A string is a sequence of characters, a   *)
(* float a fraction [num, den].                                            *)

Digits == <<"0", "1", "2", "3", "4", "5", "6", "7", "8", "9">>

IsDigit(c) == \E i \in 1..10 : Digits[i] = c

DigitVal(c) == (CHOOSE i \in 1..10 : Digits[i] = c) - 1

RECURSIVE Pow10(_)
Pow10(n) == IF n = 0 THEN 1 ELSE 10 * Pow10(n - 1)

\* the number a sequence of digits denotes
RECURSIVE DigitsVal(_)
DigitsVal(ds) ==
    IF ds = << >> THEN 0
    ELSE 10 * DigitsVal(SubSeq(ds, 1, Len(ds) - 1)) + DigitVal(ds[Len(ds)])

IndexOf(str, c) ==
    IF \E i \in 1..Len(str) : str[i] = c
    THEN CHOOSE i \in 1..Len(str) : str[i] = c /\ \A j \in 1..(i - 1) : str[j] # c
    ELSE 0

\* str.split(sep)
RECURSIVE Split(_, _)
Split(str, sep) ==
    LET i == IndexOf(str, sep)
    IN  IF i = 0 THEN <<str>>
        ELSE <<SubSeq(str, 1, i - 1)>> \o Split(SubSeq(str, i + 1, Len(str)), sep)

\* float(str) for strings of digits, '.', '+' and '-' (any other character
\* makes it raise ValueError): [ok, val]
ParseUnsigned(str) ==
    LET i    == IndexOf(str, ".")
        whole == IF i = 0 THEN str ELSE SubSeq(str, 1, i - 1)
        frac  == IF i = 0 THEN << >> ELSE SubSeq(str, i + 1, Len(str))
    IN  IF /\ \A j \in 1..Len(whole) : IsDigit(whole[j])
           /\ \A j \in 1..Len(frac) : IsDigit(frac[j])
           /\ Len(whole) + Len(frac) > 0
        THEN [ok |-> TRUE,
              val |-> Rat(DigitsVal(whole) * Pow10(Len(frac)) + DigitsVal(frac),
                          Pow10(Len(frac)))]
        ELSE [ok |-> FALSE, val |-> Rat(0, 1)]

float(str) ==
    IF str # << >> /\ str[1] = "-"
    THEN LET r == ParseUnsigned(Tail(str))
         IN  [ok |-> r.ok, val |-> Rat(0 - r.val.num, r.val.den)]
    ELSE IF str # << >> /\ str[1] = "+" THEN ParseUnsigned(Tail(str))
    ELSE ParseUnsigned(str)

RatAdd(a, b) == Rat(a.num * b.den + b.num * a.den, a.den * b.den)

RatTimes(a, k) == Rat(a.num * k, a.den)

\* a value passed as timestamp: a str, or a value of another type
Str(chars) == [type |-> "str", chars |-> chars]

NotStr(type) == [type |-> type, chars |-> << >>]

\* what a helper gives back: status "returned" or "raised", type "float",
\* "NoneType" or "bool", val the float returned
Gave(status, type, val) == [status |-> status, type |-> type, val |-> val]

\* lines 121-123
ParseFailed == Gave("returned", "float", Rat(0, 1))

timestamp_to_seconds(timestamp) ==
    IF timestamp.type # "str"
    THEN Gave("raised", "TypeError", Rat(0, 1))
    ELSE IF IndexOf(timestamp.chars, ":") # 0
    THEN LET parts == Split(timestamp.chars, ":")
         IN  IF Len(parts) = 2
             THEN LET minutes == float(parts[1])
                      seconds == float(parts[2])
                  IN  IF ~minutes.ok \/ ~seconds.ok THEN ParseFailed
                      ELSE Gave("returned", "float",
                                RatAdd(RatTimes(minutes.val, 60), seconds.val))
             ELSE IF Len(parts) = 3
             THEN LET hours   == float(parts[1])
                      minutes == float(parts[2])
                      seconds == float(parts[3])
                  IN  IF ~hours.ok \/ ~minutes.ok \/ ~seconds.ok
                      THEN ParseFailed
                      ELSE Gave("returned", "float",
                                RatAdd(RatAdd(RatTimes(hours.val, 3600),
                                              RatTimes(minutes.val, 60)),
                                       seconds.val))
             ELSE Gave("returned", "NoneType", Rat(0, 1))
    ELSE LET seconds == float(timestamp.chars)
         IN  IF ~seconds.ok THEN ParseFailed
             ELSE Gave("returned", "float", seconds.val)

\* the fields a timestamp is made of, and the timestamps: up to MaxFields
\* fields joined by ':', and values that are not strings
Fields ==
    { << >>, <<"0">>, <<"0", "4">>, <<"1">>, <<"0", "2">>, <<"0", "3">>,
      <<"1", "2", ".", "5">>, <<"-", "1">>, <<"-", "5">>, <<"3", "0">>,
      <<"a", "b", "c">> }

RECURSIVE Join(_)
Join(fields) ==
    IF Len(fields) = 1 THEN fields[1]
    ELSE fields[1] \o <<":">> \o Join(Tail(fields))

Timestamps ==
    { Str(Join(fs)) : fs \in UNION { [1..n -> Fields] : n \in 1..MaxFields } }
        \cup { NotStr("int"), NotStr("float"), NotStr("NoneType") }

\* int(x) for a fraction with a positive denominator: towards zero
Trunc(x) ==
    IF x.num >= 0 THEN x.num \div x.den ELSE 0 - ((0 - x.num) \div x.den)

\* only frame numbers beyond total_frames are replaced
frame_number_beyond_only(timestamp_seconds, fps, total_frames) ==
    LET frame_number ==
            Trunc(Rat(timestamp_seconds.num * fps.num,
                      timestamp_seconds.den * fps.den))
    IN  IF frame_number > total_frames THEN total_frames - 1
        ELSE IF frame_number < 0 THEN 0
        ELSE frame_number

\* lines 149-158: the frame number that is sought
frame_number_sought(timestamp_seconds, fps, total_frames) ==
    LET frame_number ==
            Trunc(Rat(timestamp_seconds.num * fps.num,
                      timestamp_seconds.den * fps.den))
    IN  IF frame_number >= total_frames THEN total_frames - 1
        ELSE IF frame_number < 0 THEN 0
        ELSE frame_number

\* opens: cap.isOpened(); read_ok: cap.read() gave a frame; write_ok:
\* cv2.imwrite returned True.  [sought, set, val]: the frame number given to
\* cap.set, whether cap.set is reached, and the value returned.
extract_frame_at_timestamp(opens, fps, total_frames, timestamp_seconds, read_ok, write_ok) ==
    IF ~opens THEN [sought |-> 0, set |-> FALSE, val |-> FALSE]
    ELSE LET frame_number ==
                 frame_number_sought(timestamp_seconds, fps, total_frames)
         IN  IF ~read_ok
             THEN [sought |-> frame_number, set |-> TRUE, val |-> FALSE]
             ELSE [sought |-> frame_number, set |-> TRUE, val |-> write_ok]

\* the seconds asked for, the frame rates and the frame counts
Seconds ==
    { Rat(0 - 1, 1), Rat(0 - 1, 100), Rat(0, 1), Rat(1, 100), Rat(1, 2),
      Rat(1, 1), Rat(999, 100), Rat(10, 1), Rat(15, 1) }

FrameCounts == {0, 1, 2, 300}

\* no helper has been called
NoCall ==
    [ fn |-> "none", timestamp |-> NotStr("NoneType"),
      seconds |-> Rat(0, 1), fps_c |-> 0, total_frames |-> 0,
      status |-> "returned", type |-> "NoneType", val |-> Rat(0, 1),
      set |-> FALSE, sought |-> 0, ok |-> FALSE ]

----------------------------------------------------------------------------
(* parse_analysis_json_and_extract_frames.  An analysis text is given by   *)
(* what json.loads makes of it and by what the code asks of that value.    *)

\* an analysis has up to MaxPhases phase entries
MaxPhases == 2

\* how extract_frame_at_timestamp ends for an entry: the frame is written,
\* the video does not open, the frame is not read, imwrite returns False
ExtractOutcomes == {"ok", "no_open", "no_read", "no_write"}

PhaseTimestamps ==
    { Str(<<"0", ":", "0", "4">>), Str(<<"a", "b", "c">>),
      Str(<<"0", ":", "0", ":", "0", ":", "4">>),
      NotStr("int") }

\* a value of the 'phases' mapping: is_dict whether it is a dict,
\* has_timestamp whether 'frame_timestamp' is a key of it, timestamp the
\* value under that key, out how the extraction ends if it is reached
PhaseEntry(is_dict, has_timestamp, timestamp, out) ==
    [is_dict |-> is_dict, has_timestamp |-> has_timestamp,
     timestamp |-> timestamp, out |-> out]

PhaseEntries ==
    { PhaseEntry(FALSE, FALSE, NotStr("NoneType"), "ok"),
      PhaseEntry(TRUE, FALSE, NotStr("NoneType"), "ok") }
    \cup UNION { { PhaseEntry(TRUE, TRUE, ts, o) :
                     o \in (IF ts.type = "str" THEN ExtractOutcomes
                            ELSE {"ok"}) } :
                 ts \in PhaseTimestamps }

\* parses: json.loads returns; kind: the type of the value it returns;
\* has_phases: 'phases' is a key of the object (an element of the array, a
\* part of the string); phases_kind: the type of the value under 'phases';
\* entries: the values of that mapping, in the order of the text (the phase
\* names are their positions); mkdir_ok: frame_dir.mkdir does not raise.
Text(parses, kind, has_phases, phases_kind, entries, mkdir_ok) ==
    [parses |-> parses, kind |-> kind, has_phases |-> has_phases,
     phases_kind |-> phases_kind, entries |-> entries, mkdir_ok |-> mkdir_ok]

NotJson == Text(FALSE, "none", FALSE, "none", << >>, TRUE)

\* the texts with up to n phase entries
AnalysisTexts(n) ==
    {NotJson}
    \cup { Text(TRUE, k, FALSE, "none", << >>, TRUE) :
             k \in {"number", "null", "bool", "object"} }
    \cup { Text(TRUE, k, hp, "none", << >>, TRUE) :
             k \in {"string", "array"}, hp \in BOOLEAN }
    \cup { Text(TRUE, "object", TRUE, pk, << >>, m) :
             pk \in {"null", "number", "string", "array"}, m \in BOOLEAN }
    \cup { Text(TRUE, "object", TRUE, "object", es, TRUE) :
             es \in UNION { [1..m -> PhaseEntries] : m \in 0..n } }

\* the video the frames are taken from
ProcessedVideo == [fps |-> Rat(1500, 100), total_frames |-> 300]

\* what the function has done: frames the keys of extracted_frames,
\* attempts the entries extract_frame_at_timestamp was called for, in
\* order, error the exception that ended the body of the try
ParseGave(status, error, frames, attempts) ==
    [status |-> status, error |-> error, frames |-> frames,
     attempts |-> attempts]

\* 'phases' in analysis_json (line 206)
Contains(text) ==
    IF text.kind \in {"number", "null", "bool"} THEN "TypeError"
    ELSE IF text.has_phases THEN "True"
    ELSE "False"

\* line 225: seconds is what timestamp_to_seconds gave; a value that is not
\* a number raises inside extract_frame_at_timestamp, which returns False
ExtractFrameFor(seconds, out) ==
    IF out = "no_open" THEN FALSE
    ELSE IF seconds.type # "float" THEN FALSE
    ELSE extract_frame_at_timestamp(
             TRUE, ProcessedVideo.fps, ProcessedVideo.total_frames,
             seconds.val, out # "no_read", out # "no_write").val

\* lines 215-231, from entry i on
RECURSIVE ExtractPhases(_, _, _)
ExtractPhases(entries, i, acc) ==
    IF i > Len(entries) THEN acc
    ELSE IF ~(entries[i].is_dict /\ entries[i].has_timestamp)
    THEN ExtractPhases(entries, i + 1, acc)
    ELSE LET seconds == timestamp_to_seconds(entries[i].timestamp)
         IN  IF seconds.status = "raised"
             THEN [acc EXCEPT !.status = "raised", !.error = seconds.type]
             ELSE ExtractPhases(
                      entries, i + 1,
                      [acc EXCEPT
                         !.attempts = Append(@, i),
                         !.frames = IF ExtractFrameFor(seconds, entries[i].out)
                                    THEN @ \cup {i} ELSE @])

\* lines 201-231: the body of the try
ParseBody(text) ==
    IF ~text.parses THEN ParseGave("raised", "JSONDecodeError", {}, << >>)
    ELSE IF Contains(text) = "TypeError"
    THEN ParseGave("raised", "TypeError", {}, << >>)
    ELSE IF Contains(text) = "False" THEN ParseGave("returned", "", {}, << >>)
    ELSE IF text.kind # "object"
    THEN ParseGave("raised", "TypeError", {}, << >>)
    ELSE IF ~text.mkdir_ok THEN ParseGave("raised", "OSError", {}, << >>)
    ELSE IF text.phases_kind # "object"
    THEN ParseGave("raised", "AttributeError", {}, << >>)
    ELSE ExtractPhases(text.entries, 1, ParseGave("returned", "", {}, << >>))

\* only json.JSONDecodeError is caught
parse_analysis_json_decode_errors_only(text) ==
    LET r == ParseBody(text)
    IN  IF r.error = "JSONDecodeError" THEN [r EXCEPT !.status = "returned"]
        ELSE r

\* lines 233-239: both except clauses log and fall through to the return
parse_analysis_json_and_extract_frames(text) ==
    LET r == ParseBody(text)
    IN  [r EXCEPT !.status = "returned"]

\* a call of parse_analysis_json_and_extract_frames
ParseCall(text, status, r) ==
    [ fn |-> "parse_analysis_json_and_extract_frames", text |-> text,
      status |-> status, error |-> r.error, frames |-> r.frames,
      attempts |-> r.attempts ]

----------------------------------------------------------------------------
(* get_video_rotation, rotate_frame and slow_down_video.                   *)

\* int(str) for a string of an optional sign and digits; other strings
\* raise ValueError
int(str) ==
    LET digits == IF str # << >> /\ str[1] \in {"-", "+"} THEN Tail(str)
                  ELSE str
    IN  IF digits = << >> \/ \E j \in 1..Len(digits) : ~IsDigit(digits[j])
        THEN [ok |-> FALSE, val |-> 0]
        ELSE [ok |-> TRUE,
              val |-> IF str[1] = "-" THEN 0 - DigitsVal(digits)
                      ELSE DigitsVal(digits)]

\* a stream of ffprobe's output: matrix whether side_data_list has a
\* Display Matrix, rotation its 'rotation', tagged whether tags has 'rotate',
\* rotate that tag
Stream(codec_type, matrix, rotation, tagged, rotate) ==
    [codec_type |-> codec_type, matrix |-> matrix, rotation |-> rotation,
     tagged |-> tagged, rotate |-> rotate]

MatrixRotations == {0 - 270, 0 - 180, 0 - 90, 0, 90, 180, 270}

RotateTags ==
    { <<"0">>, <<"9", "0">>, <<"1", "8", "0">>, <<"2", "7", "0">>,
      <<"-", "9", "0">>, <<"3", "6", "0">>, <<"9", "0", ".", "0">> }

PlainStream(codec_type) == Stream(codec_type, FALSE, 0, FALSE, << >>)

\* video streams with a display matrix, a rotate tag or both
RotatedStreams ==
    { Stream("video", TRUE, r, FALSE, << >>) : r \in MatrixRotations }
    \cup { Stream("video", FALSE, 0, TRUE, t) : t \in RotateTags }
    \cup { Stream("video", TRUE, r, TRUE, t) :
             r \in {0 - 90, 180}, t \in {<<"9", "0">>, <<"2", "7", "0">>} }

\* what ffprobe gives: runs whether it could be run and its output read,
\* returncode its exit status, streams the streams of the file
Probe(runs, returncode, streams) ==
    [runs |-> runs, returncode |-> returncode, streams |-> streams]

\* the probes of files with one stream that carries a rotation
DirectProbes == { Probe(TRUE, 0, <<st>>) : st \in RotatedStreams }

Probes ==
    { Probe(FALSE, 0, << >>), Probe(TRUE, 1, << >>), Probe(TRUE, 0, << >>) }
    \cup DirectProbes
    \cup { Probe(TRUE, 0, <<PlainStream(c), st>>) :
             c \in {"audio", "video"}, st \in RotatedStreams }

\* lines 307-319, for the streams from the first on: the value returned, or
\* a ValueError raised by int()
RECURSIVE StreamRotation(_)
StreamRotation(streams) ==
    IF streams = << >> THEN [ok |-> TRUE, val |-> 0]
    ELSE LET stream == Head(streams)
         IN  IF stream.codec_type # "video" THEN StreamRotation(Tail(streams))
             ELSE IF stream.matrix
             THEN [ok |-> TRUE, val |-> 0 - stream.rotation]
             ELSE IF stream.tagged THEN int(stream.rotate)
             ELSE StreamRotation(Tail(streams))

get_video_rotation(probe) ==
    IF ~probe.runs THEN 0
    ELSE IF probe.returncode # 0 THEN 0
    ELSE IF ~StreamRotation(probe.streams).ok THEN 0
    ELSE StreamRotation(probe.streams).val

\* a frame: src its number in the input, turned the degrees it has been
\* turned clockwise, width and height its size
Frame(src, turned, width, height) ==
    [src |-> src, turned |-> turned, width |-> width, height |-> height]

rotate_frame(frame, angle) ==
    IF angle = 90
    THEN Frame(frame.src, (frame.turned + 90) % 360, frame.height, frame.width)
    ELSE IF angle = 180
    THEN Frame(frame.src, (frame.turned + 180) % 360, frame.width, frame.height)
    ELSE IF angle = 270
    THEN Frame(frame.src, (frame.turned + 270) % 360, frame.height, frame.width)
    ELSE frame

\* an input of slow_down_video: opens (cap.isOpened()), fps_c
\* (CAP_PROP_FPS in hundredths), width, height, n (the frames cap.read()
\* yields), fault (the frame at which cap.read() raises, n if it does not)
SlowInput(opens, fps_c, n, fault) ==
    [opens |-> opens, fps_c |-> fps_c, width |-> 1920, height |-> 1080,
     n |-> n, fault |-> fault]

SlowInputs ==
    { SlowInput(FALSE, 0, 0, 0) }
    \cup UNION { { SlowInput(TRUE, f, n, ft) :
                     f \in FrameRates, ft \in {n} \cup (0..(n - 1)) } :
                 n \in 0..MaxShort }

SlowFactors == { Rat(0, 1), Rat(1, 2), Rat(1, 1), Rat(2, 1), Rat(4, 1) }

\* a / b for fractions, b positive
RatDiv(a, b) == Rat(a.num * b.den, a.den * b.num)

\* every second frame is written
WriteFramesEveryOther(video, rotation_angle, k, written) ==
    [ i \in 1..((video.n + 1) \div 2) |->
        LET frame == Frame(2 * (i - 1), 0, video.width, video.height)
        IN  IF rotation_angle # 0 THEN rotate_frame(frame, rotation_angle)
            ELSE frame ]

\* lines 391-401, from frame k on: the frames given to out.write, in order
RECURSIVE WriteFrames(_, _, _, _)
WriteFrames(video, rotation_angle, k, written) ==
    IF k >= video.n \/ k = video.fault THEN written
    ELSE LET frame == Frame(k, 0, video.width, video.height)
         IN  WriteFrames(
                 video, rotation_angle, k + 1,
                 Append(written,
                        IF rotation_angle # 0
                        THEN rotate_frame(frame, rotation_angle)
                        ELSE frame))

\* what slow_down_video has done: val the value returned, rotation the
\* angle get_video_rotation gave, new_fps and size what the writer was made
\* with (made whether it was), written the frames given to it
Slowed(val, rotation, made, new_fps, size, written) ==
    [val |-> val, rotation |-> rotation, made |-> made, new_fps |-> new_fps,
     size |-> size, written |-> written]

slow_down_video(probe, video, slow_factor) ==
    LET rotation_angle == get_video_rotation(probe)
        size == IF rotation_angle = 90 \/ rotation_angle = 270
                THEN <<video.height, video.width>>
                ELSE <<video.width, video.height>>
    IN  IF ~video.opens
        THEN Slowed(FALSE, rotation_angle, FALSE, Rat(0, 1), <<0, 0>>, << >>)
        ELSE IF slow_factor.num = 0
        THEN Slowed(FALSE, rotation_angle, FALSE, Rat(0, 1), <<0, 0>>, << >>)
        ELSE Slowed(video.fault >= video.n, rotation_angle, TRUE,
                    RatDiv(Rat(video.fps_c, 100), slow_factor), size,
                    WriteFrames(video, rotation_angle, 0, << >>))

\* a call of get_video_rotation or of slow_down_video
RotationCall(probe, status, rotation) ==
    [fn |-> "get_video_rotation", probe |-> probe, status |-> status,
     rotation |-> rotation]

SlowCall(probe, video, slow_factor, status, r) ==
    [fn |-> "slow_down_video", probe |-> probe, video |-> video,
     slow_factor |-> slow_factor, status |-> status, val |-> r.val,
     rotation |-> r.rotation, made |-> r.made, new_fps |-> r.new_fps,
     size |-> r.size, written |-> r.written]

NotSlowed == Slowed(FALSE, 0, FALSE, Rat(0, 1), <<0, 0>>, << >>)

----------------------------------------------------------------------------
(* The /analyze endpoint.  Returns [w, status, val, err]: status "raised"   *)
(* is an HTTPException, val is AnalysisResponse.success.                    *)

IngestAllowed(file) == Lower(file.ext) \in allowed_extensions

\* A pipeline and an analyzer as their constructors leave them; the remote
\* service is not touched.
NewPipeline(w) ==
    [w EXCEPT !.is_initialized = FALSE, !.uploaded_files = {},
              !.uploaded_videos = << >>, !.saved = {}]

\* no call of parse_analysis_json_and_extract_frames was made
NoParse == ParseCall(NotJson, "none", ParseGave("none", "", {}, << >>))

\* what the endpoint answers: val is AnalysisResponse.success,
\* extracted_frames whether the response carries a map (otherwise None),
\* parsed the call of parse_analysis_json_and_extract_frames it made
Response(w, status, val, err, parsed) ==
    [w |-> w, status |-> status, val |-> val, err |-> err,
     extracted_frames |-> parsed.frames # {}, parsed |-> parsed]

\* lines 535-556: local files and the results directory are removed.
EndpointFailure(w, err) ==
    Response([w EXCEPT !.saved = {}], "returned", FALSE, err, NoParse)

\* lines 518-533, with the frames extracted.
EndpointFinish(w, del2, parsed) ==
    LET oks == [h \in Handles |-> del2]
        w1  == PipelineCleanup(Log(w, Ev("p.cleanup", None, TRUE)), oks, oks)
    IN  Response(w1, "returned", TRUE, "", parsed)

\* lines 507-533: p is what parse_analysis_json_and_extract_frames gave for
\* the analysis text.
EndpointExtracted(w, del2, text, p) ==
    IF p.status = "raised"
    THEN EndpointFailure(Log(w, Ev("extract_frames", None, FALSE)), p.error)
    ELSE EndpointFinish(Log(w, Ev("extract_frames", None, TRUE)), del2,
                        ParseCall(text, p.status, p))

\* lines 505-533: r is what pipeline.analyze_video gave.
\* get_professional_serve_frames (line 516) reads the text and a directory
\* and changes nothing.
EndpointAnalyzed(r, del2, text) ==
    IF r.status = "raised" THEN EndpointFailure(r.w, r.err)
    ELSE EndpointExtracted(r.w, del2, text,
                           parse_analysis_json_and_extract_frames(text))

\* lines 499-533, with the pipeline constructed.  text: the analysis the
\* analyzer returned.
EndpointRun(w, file, env, del2, text) ==
    EndpointAnalyzed(PipelineAnalyzeVideo(w, file, TRUE, env), del2, text)

\* pre: what happens before the pipeline runs: "ok", "no_name" (no file
\* name), "store" (the upload cannot be saved), "prompt" (get_prompt_by_type
\* raises), "analyzer" (create_analyzer returns None).
\* slow_ok: slow_down_video returned True.
EndpointAnalyze(w, file, pre, slow_ok, env, del2, text) ==
    IF pre = "no_name"
    THEN Response(w, "raised", FALSE, "No file uploaded", NoParse)
    ELSE IF ~IngestAllowed(file)
    THEN Response(w, "raised", FALSE, "Unsupported file format", NoParse)
    ELSE IF pre = "store"
    THEN Response(w, "raised", FALSE, "Failed to save uploaded file", NoParse)
    ELSE LET w1 == Log(w, Ev("slow_down_video", None, slow_ok))
             stored == [file EXCEPT !.exists = TRUE]
         IN  IF pre = "prompt" THEN EndpointFailure(w1, "Invalid prompt type")
             ELSE IF pre = "analyzer"
                  THEN EndpointFailure(w1, "Failed to create analyzer")
             ELSE EndpointRun(NewPipeline(w1), stored, env, del2, text)

----------------------------------------------------------------------------
(* Two pipelines, each with its own GeminiVideoAnalyzer, in one process.   *)
(* The google.generativeai module is shared: genai.configure sets the key  *)
(* of the module, and genai.upload_file, genai.get_file and                *)
(* genai.delete_file are functions of the module that are given no key.    *)
(* Each pipeline analyzes one video that exists and has a supported        *)
(* format; a step is one call the pipeline makes, and one iteration of the *)
(* polling loop of upload_video.                                           *)

Instances == {1, 2}

FleetHandles == 1..Cardinality(Instances)

\* a file of the remote service: state its state.name ("none" before it is
\* created, "GONE" when genai.get_file raises for it), key the key it was
\* uploaded with, by the instance whose call created it
NoRemoteFile == [state |-> "none", key |-> "none", by |-> 0]

\* the last call of the remote service: by the instance that made it, key
\* the key it was made with, h the file it names
RemoteCall(by, op, key, h) == [by |-> by, op |-> op, key |-> key, h |-> h]

\* GeminiVideoAnalyzer and VideoAnalysisPipeline as their constructors leave
\* them.  model_key: the key the module had when self.model was made;
\* uploaded_file: the local variable of upload_video; pc: the call of
\* analyze_video the pipeline is at.
NewInstance(api_key) ==
    [ api_key |-> api_key, is_initialized |-> FALSE, model_key |-> "none",
      uploaded_files |-> {}, uploaded_videos |-> << >>,
      uploaded_file |-> None, pc |-> "idle" ]

Fleet(key1, key2) ==
    [ api_key |-> "none",
      files |-> [h \in FleetHandles |-> NoRemoteFile],
      a |-> [i \in Instances |-> NewInstance(IF i = 1 THEN key1 ELSE key2)],
      last |-> RemoteCall(0, "none", "none", None) ]

\* gemini_analyzer.py lines 60-84, called at line 86 of the pipeline; ok:
\* the test generate_content gave a response
FleetInitialize(g, i, ok) ==
    LET key == g.a[i].api_key
    IN  [g EXCEPT
           !.api_key = key,
           !.last = RemoteCall(i, "generate_content", key, None),
           !.a[i].model_key = key,
           !.a[i].is_initialized = IF ok THEN TRUE ELSE @,
           !.a[i].pc = IF ok THEN "initialized" ELSE "failed"]

\* lines 111-120 and lines 92-95 of the pipeline: the loop has ended with
\* the file h in a state that is not PROCESSING
FleetUploaded(g, i, h) ==
    IF g.files[h].state = "ACTIVE"
    THEN [g EXCEPT !.a[i].uploaded_files = @ \cup {h},
                   !.a[i].uploaded_videos = Append(@, h),
                   !.a[i].pc = "uploaded"]
    ELSE [g EXCEPT !.a[i].pc = "failed"]

\* lines 96-109 up to the first test of the loop; out: genai.upload_file
\* raises, or the state of the file it returns
FleetUploadVideo(g, i, out) ==
    IF ~g.a[i].is_initialized THEN [g EXCEPT !.a[i].pc = "failed"]
    ELSE IF out = "raise"
    THEN [g EXCEPT !.last = RemoteCall(i, "upload_file", g.api_key, None),
                   !.a[i].pc = "failed"]
    ELSE LET h  == CHOOSE x \in FleetHandles :
                      /\ g.files[x].state = "none"
                      /\ \A y \in FleetHandles :
                            g.files[y].state = "none" => x <= y
             g1 == [g EXCEPT
                      !.last = RemoteCall(i, "upload_file", g.api_key, h),
                      !.files[h] = [state |-> out, key |-> g.api_key,
                                    by |-> i],
                      !.a[i].uploaded_file = h]
         IN  IF out = "PROCESSING" THEN [g1 EXCEPT !.a[i].pc = "polling"]
             ELSE FleetUploaded(g1, i, h)

\* lines 106-109: one iteration of the loop, and what follows the loop when
\* it ends; genai.get_file raising ends upload_video with None (122-124)
FleetPoll(g, i) ==
    LET h  == g.a[i].uploaded_file
        g1 == [g EXCEPT !.last = RemoteCall(i, "get_file", g.api_key, h)]
    IN  IF g.files[h].state = "PROCESSING" THEN g1
        ELSE IF g.files[h].state = "GONE" THEN [g1 EXCEPT !.a[i].pc = "failed"]
        ELSE FleetUploaded(g1, i, h)

\* gemini_analyzer.py lines 126-196, called at line 101 of the pipeline
FleetAnalyzeVideo(g, i, ok) ==
    LET h == g.a[i].uploaded_file
    IN  IF ~g.a[i].is_initialized \/ h \notin g.a[i].uploaded_files
        THEN [g EXCEPT !.a[i].pc = "failed"]
        ELSE [g EXCEPT
                !.last = RemoteCall(i, "generate_content", g.a[i].model_key, h),
                !.a[i].pc = IF ok THEN "analyzed" ELSE "failed"]

\* gemini_analyzer.py lines 198-212
FleetCleanupVideo(g, i, h, ok) ==
    IF h \notin g.a[i].uploaded_files THEN g
    ELSE LET g1 == [g EXCEPT
                      !.last = RemoteCall(i, "delete_file", g.api_key, h)]
         IN  IF ok THEN [g1 EXCEPT !.files[h].state = "DELETED",
                                   !.a[i].uploaded_files = @ \ {h}]
             ELSE g1

\* lines 117-127 of the pipeline
FleetFinish(g, i, cleanup_after, ok) ==
    LET h  == g.a[i].uploaded_file
        g1 == IF cleanup_after
              THEN [FleetCleanupVideo(g, i, h, ok) EXCEPT
                      !.a[i].uploaded_videos = Remove(@, h)]
              ELSE g
    IN  [g1 EXCEPT !.a[i].pc = "done"]

\* pipeline.cleanup(): the pipeline tracks at most one handle
FleetCleanup(g, i, ok1, ok2) ==
    LET h  == g.a[i].uploaded_file
        g1 == IF InList(h, g.a[i].uploaded_videos)
              THEN [FleetCleanupVideo(g, i, h, ok1) EXCEPT
                      !.a[i].uploaded_videos = Remove(@, h)]
              ELSE g
        g2 == IF h \in g1.a[i].uploaded_files
              THEN FleetCleanupVideo(g1, i, h, ok2)
              ELSE g1
    IN  [g2 EXCEPT !.a[i].is_initialized = FALSE, !.a[i].pc = "closed"]

----------------------------------------------------------------------------
(* Actions *)

\* What the operation that ran last was called with and what it gave back:
\* op its name, file its video_path (NoFile if it has none), status whether
\* it returned or raised, val its truth value (a result, a handle, True),
\* h the handle it concerns, err the message of the exception.
NoFile == [stem |-> "", ext |-> "", exists |-> FALSE]

Result(op, file, val, h) ==
    [op |-> op, file |-> file, status |-> "returned", val |-> val, h |-> h,
     err |-> ""]

InitObjects ==
    /\ is_initialized = FALSE
    /\ uploaded_files = {}
    /\ uploaded_videos = << >>
    /\ remote_files = {}
    /\ next_id = 0
    /\ delete_attempts = [h \in Handles |-> 0]
    /\ saved = {}
    /\ trace = << >>
    /\ ret = Result("init", NoFile, TRUE, None)
    /\ batch = NoBatch
    /\ proc = NoProc
    /\ reg = NoReg
    /\ fleet = Fleet("k1", "k2")

Init ==
    /\ InitObjects
    /\ call = NoCall

WithinBounds(w) ==
    /\ w.next_id <= MaxUploads
    /\ \A h \in Handles : w.delete_attempts[h] <= MaxDeleteAttempts

CommitAnalysis(w) ==
    /\ WithinBounds(w)
    /\ is_initialized' = w.is_initialized
    /\ uploaded_files' = w.uploaded_files
    /\ uploaded_videos' = w.uploaded_videos
    /\ remote_files' = w.remote_files
    /\ next_id' = w.next_id
    /\ delete_attempts' = w.delete_attempts
    /\ saved' = w.saved
    /\ trace' = w.trace

Commit(w) ==
    /\ CommitAnalysis(w)
    /\ UNCHANGED <<proc, reg, call, fleet>>

\* The remote service creates at most MaxUploads files: beyond that
\* genai.upload_file raises.
UploadAllowed(env) == next_id < MaxUploads \/ env.upload = "raise"

\* The handle the operation obtained from a.upload_video, if any.
UploadedHandle(t) ==
    IF \E i \in 1..Len(t) : t[i].op = "a.upload_video" /\ t[i].ok
    THEN t[CHOOSE i \in 1..Len(t) : t[i].op = "a.upload_video" /\ t[i].ok].h
    ELSE None

Outcome(op, file, r) ==
    [op |-> op, file |-> file, status |-> r.status,
     val |-> r.status = "returned", h |-> UploadedHandle(r.w.trace),
     err |-> r.err]

\* pipeline.analyze_video(video_path, prompt, cleanup_after=...)
AnalyzeVideo ==
    /\ ~batch.active
    /\ \E file \in Files, cleanup_after \in BOOLEAN :
       \E env \in ReachedEnv(file, cleanup_after) :
          LET r == PipelineAnalyzeVideo(World, file, cleanup_after, env)
          IN  /\ UploadAllowed(env)
              /\ Commit(r.w)
              /\ ret' = Outcome("analyze_video", file, r)
    /\ batch' = NoBatch

\* pipeline.analyze_video(video_path, prompt, keypoints_json, custom_data,
\* cleanup_after): additional_data is what the analyzer is called with
AnalyzeVideoContext ==
    /\ ~batch.active
    /\ \E file \in Files, cleanup_after \in BOOLEAN, context \in Contexts :
       \E env \in ReachedEnv(file, cleanup_after) :
          LET r == PipelineAnalyzeVideo(World, file, cleanup_after, env)
              additional_data ==
                  PipelineAdditionalData(context.keypoints_json,
                                         context.custom_data)
          IN  /\ UploadAllowed(env)
              /\ Commit(r.w)
              /\ ret' = [op |-> "analyze_video", file |-> file,
                         status |-> r.status, val |-> r.status = "returned",
                         h |-> UploadedHandle(r.w.trace), err |-> r.err,
                         context |-> context,
                         additional_data |-> additional_data,
                         additional_data_provided |->
                             AdditionalDataProvided(additional_data)]
    /\ batch' = NoBatch

\* the first analysis of a newly constructed pipeline
FirstAnalysis ==
    /\ ret.op = "init"
    /\ AnalyzeVideoContext

\* pipeline.cleanup()
Cleanup ==
    /\ ~batch.active
    /\ \E oks1 \in DeleteOutcomes(Range(uploaded_videos) \cap uploaded_files) :
       \E oks2 \in DeleteOutcomes({h \in uploaded_files :
                                     h \in Range(uploaded_videos) => ~oks1[h]}) :
          LET w == PipelineCleanup(World, oks1, oks2)
          IN  /\ Commit(w)
              /\ ret' = Result("cleanup", NoFile, TRUE, None)
    /\ batch' = NoBatch

\* pipeline.batch_analyze(video_configs, cleanup_after_each): line 147,
\* called on a newly constructed pipeline
BatchStart ==
    /\ ~batch.active
    /\ ret.op = "init"
    /\ \E n \in 1..MaxBatch, c \in BOOLEAN :
          batch' = [NoBatch EXCEPT !.active = TRUE, !.n = n,
                                   !.cleanup_after_each = c]
    /\ Commit(World)
    /\ ret' = Result("batch_start", NoFile, TRUE, None)

\* lines 149-169: one configuration
BatchItem ==
    /\ batch.active
    /\ batch.i < batch.n
    /\ \E file \in Files :
       \E env \in ReachedEnv(file, batch.cleanup_after_each) :
          LET r == PipelineAnalyzeVideo(World, file,
                                        batch.cleanup_after_each, env)
          IN  /\ UploadAllowed(env)
              /\ Commit(r.w)
              /\ ret' = Outcome("batch_item", file, r)
              /\ batch' = RecordItem(batch, file, r)

\* lines 171-180: the results are written (or the error logged) and returned
BatchFinish ==
    /\ batch.active
    /\ batch.i = batch.n
    /\ \E ok \in BOOLEAN :
          Commit(Log(World, Ev("save_batch", None, ok)))
    /\ batch' = [batch EXCEPT !.active = FALSE]
    /\ ret' = Result("batch_analyze", NoFile, TRUE, None)

\* The outcomes with which the analyzer returns an analysis of the file.
Analyzed(file, env) ==
    /\ IngestAllowed(file)
    /\ validate_video_file(file)
    /\ env.init /\ env.upload = "active" /\ env.analyze = "text"

\* The files a client posts: a name and content, stored under uploads/.
Posted == { f \in Files : f.exists }

\* POST /analyze, the analyzer answering with one of texts
EndpointOn(texts) ==
    /\ ~batch.active
    /\ \E file \in Posted,
          pre \in {"ok", "no_name", "store", "prompt", "analyzer"} :
       \E slow_ok \in (IF pre = "no_name" \/ pre = "store" \/ ~IngestAllowed(file)
                       THEN {TRUE} ELSE BOOLEAN),
          env \in (IF pre = "ok" /\ IngestAllowed(file)
                   THEN ReachedEnv(file, TRUE) ELSE {NoEnv}) :
       \E del2 \in (IF pre = "ok" /\ ~env.del THEN BOOLEAN ELSE {TRUE}),
          text \in (IF pre = "ok" /\ Analyzed(file, env)
                    THEN texts ELSE {NotJson}) :
          /\ UploadAllowed(env)
          /\ \E r \in {EndpointAnalyze(World, file, pre, slow_ok, env, del2, text)} :
              /\ CommitAnalysis(r.w)
              /\ ret' = [op |-> "endpoint", file |-> file,
                         status |-> r.status, val |-> r.val,
                         h |-> UploadedHandle(r.w.trace), err |-> r.err,
                         extracted_frames |-> r.extracted_frames]
              /\ call' = IF r.parsed.status = "none" THEN call ELSE r.parsed
              /\ UNCHANGED <<proc, reg, fleet>>
    /\ batch' = NoBatch

\* an analysis that is not JSON, and one with a phase whose frame is written
EndpointTexts ==
    { NotJson,
      Text(TRUE, "object", TRUE, "object",
           <<PhaseEntry(TRUE, TRUE, Str(<<"0", ":", "0", "4">>), "ok")>>,
           TRUE) }

\* POST /analyze
Endpoint == EndpointOn(EndpointTexts)

\* the first request a newly started service gets, with any analysis text
FirstRequest ==
    /\ ret.op = "init"
    /\ EndpointOn(AnalysisTexts(MaxPhases))

----------------------------------------------------------------------------
(* The analyzer's interface called directly (VideoAnalyzerBase's methods). *)

AInitialize ==
    /\ \E ok \in BOOLEAN :
          LET r == GeminiInitialize(World, ok)
          IN  /\ Commit(r.w)
              /\ ret' = Result("a.initialize", NoFile, r.val, None)
    /\ batch' = NoBatch

AUploadVideo ==
    /\ \E file \in Files, out \in {"active", "failed", "raise"} :
          LET r == GeminiUploadVideo(World, file, out)
          IN  /\ next_id < MaxUploads \/ out = "raise"
              /\ Commit(r.w)
              /\ ret' = Result("a.upload_video", file, r.val # None, r.val)
    /\ batch' = NoBatch

AAnalyzeVideo ==
    /\ \E video_ref \in Handles, out \in {"text", "empty", "raise"} :
          LET r == GeminiAnalyzeVideo(World, video_ref, out)
          IN  /\ Commit(r.w)
              /\ ret' = Result("a.analyze_video", NoFile, r.val, video_ref)
    /\ batch' = NoBatch

ACleanupVideo ==
    /\ \E video_ref \in Handles, ok \in BOOLEAN :
          LET r == GeminiCleanupVideo(World, video_ref, ok)
          IN  /\ Commit(r.w)
              /\ ret' = Result("a.cleanup_video", NoFile, r.val, video_ref)
    /\ batch' = NoBatch

ACleanup ==
    /\ \E oks \in DeleteOutcomes(uploaded_files) :
          /\ Commit(GeminiCleanup(World, oks))
          /\ ret' = Result("a.cleanup", NoFile, TRUE, None)
    /\ batch' = NoBatch

----------------------------------------------------------------------------
(* The pose processor, the factories and the helpers called directly.      *)

analysis_vars ==
    <<is_initialized, uploaded_files, uploaded_videos, remote_files,
      next_id, delete_attempts, saved, trace, ret, batch>>

\* VideoPoseProcessor(model_name, save_video=..., save_keypoints=...)
NewProcessor ==
    /\ proc.status # "loop"
    /\ \E name \in {n_dummy, StrUpper(n_mp), n_yolo},
          save_video \in BOOLEAN, save_keypoints \in BOOLEAN :
          LET r == create_estimator(reg.models, name)
          IN  proc' = IF r.status = "raised" \/ r.val = "None"
                      THEN [NoProc EXCEPT
                              !.status = "raised",
                              !.err = "Failed to create pose estimator"]
                      ELSE [NoProc EXCEPT
                              !.status = "new", !.model_class = r.val,
                              !.save_video = save_video,
                              !.save_keypoints = save_keypoints]
    /\ UNCHANGED <<fleet, analysis_vars, reg, call>>

\* PoseEstimatorFactory.register_model("my", CustomPoseEstimator), then
\* VideoPoseProcessor("my", save_video=..., save_keypoints=...)
NewCustomProcessor ==
    /\ proc.status # "loop"
    /\ \E save_video \in BOOLEAN, save_keypoints \in BOOLEAN :
          LET registered ==
                  register_model(
                      reg.models, n_my,
                      Class("CustomPoseEstimator", "PoseEstimatorBase", FALSE))
              r == create_estimator(registered.registry, n_my)
          IN  /\ reg' = [models |-> r.registry, analyzers |-> reg.analyzers,
                         op |-> "create_estimator", name |-> n_my,
                         class |-> NoReg.class, status |-> r.status,
                         val |-> r.val, model_name |-> r.model_name]
              /\ proc' = IF r.status = "raised" \/ r.val = "None"
                         THEN [NoProc EXCEPT
                                 !.status = "raised",
                                 !.err = "Failed to create pose estimator"]
                         ELSE [NoProc EXCEPT
                                 !.status = "new", !.model_class = r.val,
                                 !.save_video = save_video,
                                 !.save_keypoints = save_keypoints]
    /\ UNCHANGED <<fleet, analysis_vars, call>>

\* processor.process_video(video_path), as main() calls it: once, on the
\* processor it has constructed.  DummyPoseEstimator.initialize always
\* returns True.
ProcessVideoStart ==
    /\ proc.status = "new"
    /\ \E video \in DetectorVideos(proc.model_class) :
       \E init_ok \in (IF video.exists
                           /\ proc.model_class # "DummyPoseEstimator"
                        THEN BOOLEAN ELSE {TRUE}) :
          proc' = StartProcessVideo(proc, video, init_ok)
    /\ UNCHANGED <<fleet, analysis_vars, reg, call>>

\* the loop of process_video, one iteration at a time, and its end
ProcessVideoLoop ==
    /\ proc.status = "loop"
    /\ \E kp_ok \in (IF /\ proc.save_keypoints
                          /\ proc.frame_count >= proc.video.n
                          /\ ~Faulty(proc, "read")
                       THEN BOOLEAN ELSE {TRUE}) :
          proc' = LoopIteration(proc, kp_ok)
    /\ UNCHANGED <<fleet, analysis_vars, reg, call>>

\* PoseEstimatorFactory.create_estimator(name)
CreateEstimator ==
    /\ \E name \in CreateNames :
          LET r == create_estimator(reg.models, name)
          IN  reg' = [models |-> r.registry, analyzers |-> reg.analyzers,
                      op |-> "create_estimator", name |-> name,
                      class |-> NoReg.class, status |-> r.status,
                      val |-> r.val, model_name |-> r.model_name]
    /\ UNCHANGED <<fleet, analysis_vars, proc, call>>

\* PoseEstimatorFactory.register_model(name, model_class)
RegisterModel ==
    /\ \E name \in RegisterNames, class \in CallerClasses :
          LET r == register_model(reg.models, name, class)
          IN  reg' = [models |-> r.registry, analyzers |-> reg.analyzers,
                      op |-> "register_model", name |-> name,
                      class |-> class, status |-> r.status,
                      val |-> r.val, model_name |-> r.model_name]
    /\ UNCHANGED <<fleet, analysis_vars, proc, call>>

\* VideoAnalyzerFactory.create_analyzer(name, api_key)
CreateAnalyzer ==
    /\ \E name \in CreateNames :
          LET r == create_analyzer(reg.analyzers, name)
          IN  reg' = [models |-> reg.models, analyzers |-> r.registry,
                      op |-> "create_analyzer", name |-> name,
                      class |-> NoReg.class, status |-> r.status,
                      val |-> r.val, model_name |-> r.model_name]
    /\ UNCHANGED <<fleet, analysis_vars, proc, call>>

\* VideoAnalyzerFactory.register_analyzer(name, analyzer_class)
RegisterAnalyzer ==
    /\ \E name \in RegisterNames, class \in CallerClasses :
          LET r == register_analyzer(reg.analyzers, name, class)
          IN  reg' = [models |-> reg.models, analyzers |-> r.registry,
                      op |-> "register_analyzer", name |-> name,
                      class |-> class, status |-> r.status,
                      val |-> r.val, model_name |-> r.model_name]
    /\ UNCHANGED <<fleet, analysis_vars, proc, call>>

\* The calls of the helpers: a call is pending with its arguments, then it
\* has returned or raised.
PendingCalls ==
    { [NoCall EXCEPT !.fn = "timestamp_to_seconds", !.status = "pending",
                     !.timestamp = ts] : ts \in Timestamps }
    \cup { [NoCall EXCEPT !.fn = "extract_frame_at_timestamp",
                          !.status = "pending", !.seconds = sec,
                          !.fps_c = f, !.total_frames = c] :
              sec \in Seconds, f \in FrameRates, c \in FrameCounts }

InitHelpers ==
    /\ InitObjects
    /\ call \in PendingCalls

\* timestamp_to_seconds(timestamp)
TimestampToSeconds ==
    /\ call.fn = "timestamp_to_seconds"
    /\ call.status = "pending"
    /\ LET r == timestamp_to_seconds(call.timestamp)
       IN  call' = [call EXCEPT !.status = r.status, !.type = r.type,
                                !.val = r.val]
    /\ UNCHANGED <<fleet, analysis_vars, proc, reg>>

\* extract_frame_at_timestamp(video_path, timestamp_seconds, output_path)
ExtractFrame ==
    /\ call.fn = "extract_frame_at_timestamp"
    /\ call.status = "pending"
    /\ \E opens \in BOOLEAN :
       \E read_ok \in (IF opens THEN BOOLEAN ELSE {TRUE}) :
       \E write_ok \in (IF opens /\ read_ok THEN BOOLEAN ELSE {TRUE}) :
          LET r == extract_frame_at_timestamp(
                       opens, Rat(call.fps_c, 100), call.total_frames,
                       call.seconds, read_ok, write_ok)
          IN  call' = [call EXCEPT !.status = "returned", !.type = "bool",
                                   !.set = r.set, !.sought = r.sought,
                                   !.ok = r.val]
    /\ UNCHANGED <<fleet, analysis_vars, proc, reg>>

\* The calls of get_video_rotation and slow_down_video that are pending.
PendingSlowCalls ==
    { RotationCall(probe, "pending", 0) : probe \in Probes }
    \cup { SlowCall(probe, video, slow_factor, "pending", NotSlowed) :
             probe \in DirectProbes, video \in SlowInputs,
             slow_factor \in SlowFactors }

InitSlow ==
    /\ InitObjects
    /\ call \in PendingSlowCalls

\* get_video_rotation(video_path)
GetVideoRotation ==
    /\ call.fn = "get_video_rotation"
    /\ call.status = "pending"
    /\ call' = RotationCall(call.probe, "returned",
                            get_video_rotation(call.probe))
    /\ UNCHANGED <<fleet, analysis_vars, proc, reg>>

\* slow_down_video(input_path, output_path, slow_factor)
SlowDownVideo ==
    /\ call.fn = "slow_down_video"
    /\ call.status = "pending"
    /\ call' = SlowCall(call.probe, call.video, call.slow_factor, "returned",
                        slow_down_video(call.probe, call.video,
                                        call.slow_factor))
    /\ UNCHANGED <<fleet, analysis_vars, proc, reg>>


----------------------------------------------------------------------------
(* The two pipelines, one step of one of them at a time.                   *)

other_vars == <<analysis_vars, proc, reg, call>>

\* analyzer.initialize() at line 86 of analyze_video
PeerInitialize(i) ==
    /\ fleet.a[i].pc = "idle"
    /\ \E ok \in BOOLEAN : fleet' = FleetInitialize(fleet, i, ok)
    /\ UNCHANGED other_vars

\* analyzer.upload_video() at line 91, up to the first test of its loop
PeerUpload(i) ==
    /\ fleet.a[i].pc = "initialized"
    /\ \E out \in {"raise", "PROCESSING", "ACTIVE", "FAILED"} :
          fleet' = FleetUploadVideo(fleet, i, out)
    /\ UNCHANGED other_vars

\* one iteration of the loop of upload_video
PeerPoll(i) ==
    /\ fleet.a[i].pc = "polling"
    /\ fleet' = FleetPoll(fleet, i)
    /\ UNCHANGED other_vars

\* the remote service ends the processing of a file, or loses it
RemoteProcessed ==
    /\ \E h \in FleetHandles, state \in {"ACTIVE", "FAILED", "GONE"} :
          /\ fleet.files[h].state = "PROCESSING"
          /\ fleet' = [fleet EXCEPT !.files[h].state = state]
    /\ UNCHANGED other_vars

\* analyzer.analyze_video() at line 101
PeerAnalyze(i) ==
    /\ fleet.a[i].pc = "uploaded"
    /\ \E ok \in BOOLEAN : fleet' = FleetAnalyzeVideo(fleet, i, ok)
    /\ UNCHANGED other_vars

\* lines 117-127: the result is saved and the video cleaned up
PeerFinish(i) ==
    /\ fleet.a[i].pc = "analyzed"
    /\ \E cleanup_after \in BOOLEAN :
       \E ok \in (IF cleanup_after THEN BOOLEAN ELSE {TRUE}) :
          fleet' = FleetFinish(fleet, i, cleanup_after, ok)
    /\ UNCHANGED other_vars

\* pipeline.cleanup(), after analyze_video has returned or raised
PeerCleanup(i) ==
    /\ fleet.a[i].pc \in {"done", "failed"}
    /\ \E ok1 \in (IF InList(fleet.a[i].uploaded_file,
                             fleet.a[i].uploaded_videos)
                   THEN BOOLEAN ELSE {TRUE}) :
       \E ok2 \in (IF fleet.a[i].uploaded_file \in fleet.a[i].uploaded_files
                      /\ ~ok1
                   THEN BOOLEAN ELSE {TRUE}) :
          fleet' = FleetCleanup(fleet, i, ok1, ok2)
    /\ UNCHANGED other_vars

----------------------------------------------------------------------------
(* Reading the call log *)

Remote(e) == e.op \in {"genai.generate_content", "genai.upload_file",
                       "genai.delete_file"}

Called(t, op) == \E i \in 1..Len(t) : t[i].op = op

CalledWith(t, op, h) == \E i \in 1..Len(t) : t[i].op = op /\ t[i].h = h

Answered(t, op, ok) == \E i \in 1..Len(t) : t[i].op = op /\ t[i].ok = ok

Next ==
    \/ AnalyzeVideo
    \/ Cleanup

Spec == Init /\ [][Next]_vars

NextEndpoint == Endpoint

SpecEndpoint == Init /\ [][NextEndpoint]_vars

NextService ==
    \/ AnalyzeVideo
    \/ Cleanup
    \/ Endpoint

SpecService == Init /\ [][NextService]_vars

NextBatch ==
    \/ BatchStart
    \/ BatchItem
    \/ BatchFinish

SpecBatch == Init /\ [][NextBatch]_vars

NextAnalyzer ==
    \/ AInitialize
    \/ AUploadVideo
    \/ AAnalyzeVideo
    \/ ACleanupVideo
    \/ ACleanup

SpecAnalyzer == Init /\ [][NextAnalyzer]_vars

NextProcessor ==
    \/ NewProcessor
    \/ ProcessVideoStart
    \/ ProcessVideoLoop

SpecProcessor == Init /\ [][NextProcessor]_vars

\* a processor whose detector is a class registered by the caller
NextDetector ==
    \/ NewCustomProcessor
    \/ ProcessVideoStart
    \/ ProcessVideoLoop

SpecDetector == Init /\ [][NextDetector]_vars

NextFactories ==
    \/ CreateEstimator
    \/ RegisterModel
    \/ CreateAnalyzer
    \/ RegisterAnalyzer

SpecFactories == Init /\ [][NextFactories]_vars

NextRequest == FirstRequest

SpecRequest == Init /\ [][NextRequest]_vars

\* the operations of a pipeline, and analyze_video of its analyzer called
\* with any handle
NextLifecycle ==
    \/ AnalyzeVideo
    \/ Cleanup
    \/ AAnalyzeVideo

SpecLifecycle == Init /\ [][NextLifecycle]_vars

NextPeers ==
    \/ \E i \in Instances : PeerInitialize(i)
    \/ \E i \in Instances : PeerUpload(i)
    \/ \E i \in Instances : PeerPoll(i)
    \/ RemoteProcessed
    \/ \E i \in Instances : PeerAnalyze(i)
    \/ \E i \in Instances : PeerFinish(i)
    \/ \E i \in Instances : PeerCleanup(i)

SpecPeers == Init /\ [][NextPeers]_vars

\* upload_video keeps running its loop: a step of a pipeline that is enabled
\* is taken; the remote service is under no obligation
SpecPeersLive ==
    /\ SpecPeers
    /\ \A i \in Instances :
          WF_vars(PeerInitialize(i) \/ PeerUpload(i) \/ PeerPoll(i)
                    \/ PeerAnalyze(i) \/ PeerFinish(i) \/ PeerCleanup(i))

NextContext == FirstAnalysis

SpecContext == Init /\ [][NextContext]_vars

NextSlow ==
    \/ GetVideoRotation
    \/ SlowDownVideo

SpecSlow == InitSlow /\ [][NextSlow]_vars

NextHelpers ==
    \/ TimestampToSeconds
    \/ ExtractFrame

SpecHelpers == InitHelpers /\ [][NextHelpers]_vars

----------------------------------------------------------------------------
(* Claims *)

\* C1: when the upload gave a handle and the analyze call then fails,
\* analyze_video issues cleanup_video for that handle before it raises, and
\* the /analyze endpoint does not answer with a failure while the handle is
\* still held by the remote service and no cleanup was attempted for it.
C1_CleanupBeforeFailure ==
    /\ (ret.op = "analyze_video" /\ ret.status = "raised" /\ ret.h # None
            => CalledWith(trace, "a.cleanup_video", ret.h))
    /\ (ret.op = "endpoint" /\ ~ret.val /\ ret.h # None
            => \/ CalledWith(trace, "a.cleanup_video", ret.h)
               \/ ret.h \notin remote_files)

\* C2: pipeline.cleanup() leaves the tracking list empty and has issued
\* cleanup_video for every handle that was in it, whatever the outcomes of
\* the individual cleanups.
C2_CleanupIssuesAll ==
    [][ret'.op = "cleanup"
         => /\ uploaded_videos' = << >>
            /\ \A h \in Range(uploaded_videos) :
                   CalledWith(trace', "a.cleanup_video", h)]_vars

\* a cleanup() in which the cleanup of one handle failed and the cleanup of
\* a later handle was still issued
C2_Witness ==
    /\ ret.op = "cleanup"
    /\ uploaded_videos = << >>
    /\ \E i, j \in 1..Len(trace) :
          /\ i < j
          /\ trace[i].op = "a.cleanup_video" /\ ~trace[i].ok
          /\ trace[j].op = "a.cleanup_video" /\ trace[j].h # trace[i].h

\* C3: when analyze_video runs with cleanup_after and cleanup_video answers
\* false, analyze_video still returns the result and the handle is not in
\* the tracking list afterwards.
C3_CleanupFailureNotEscalated ==
    ret.op = "analyze_video" /\ Answered(trace, "a.cleanup_video", FALSE)
        => /\ ret.status = "returned"
           /\ ret.val
           /\ ~InList(ret.h, uploaded_videos)

C3_Witness ==
    /\ ret.op = "analyze_video"
    /\ Answered(trace, "a.cleanup_video", FALSE)
    /\ ret.status = "returned"
    /\ ret.h \in uploaded_files

\* C4: over the life of a pipeline at most one remote delete is attempted
\* for a handle: after a failed cleanup, once the pipeline has forgotten the
\* handle, no later operation attempts to delete it again.
C4_AtMostOneDelete ==
    \A h \in Handles : delete_attempts[h] <= 1

ItemFailed ==
    \/ ~ret.file.exists
    \/ Answered(trace, "a.initialize", FALSE)
    \/ Answered(trace, "a.upload_video", FALSE)
    \/ Answered(trace, "a.analyze_video", FALSE)

C6_BatchContinues ==
    /\ Len(batch.log) = batch.i
    /\ Len(batch.configs) = batch.i
    /\ batch.i <= batch.n
    /\ (ret.op = "batch_analyze" => batch.i = batch.n)
    /\ \A j \in 1..batch.i :
          /\ batch.log[j].key = batch.configs[j].stem
          /\ batch.log[j].kind \in {"result", "error"}
    /\ (ret.op = "batch_item" =>
          LET e == batch.log[batch.i]
          IN  /\ batch.configs[batch.i] = ret.file
              /\ e.kind = (IF ItemFailed THEN "error" ELSE "result")
              /\ batch.results[e.key] = e.kind
              /\ (ret.file.exists => Called(trace, "a.initialize"))
              /\ (e.kind = "result" =>
                     /\ Answered(trace, "a.upload_video", TRUE)
                     /\ Answered(trace, "a.analyze_video", TRUE)))

\* three configurations, the upload of the second fails
C6_Witness ==
    /\ ret.op = "batch_analyze"
    /\ batch.n = 3
    /\ batch.log[1].kind = "result"
    /\ batch.log[2].kind = "error"
    /\ batch.log[2].err = "Failed to upload video"
    /\ batch.log[3].kind = "result"
    /\ batch.results[batch.log[1].key] = "result"
    /\ batch.results[batch.log[2].key] = "error"
    /\ batch.results[batch.log[3].key] = "result"

\* C7: when initialize() answers false, analyze_video raises without calling
\* upload_video, analyze_video or cleanup_video on the analyzer, and the
\* tracking list is unchanged.
C7_InitFailureStops ==
    [][ret'.op = "analyze_video" /\ Answered(trace', "a.initialize", FALSE)
         => /\ ret'.status = "raised"
            /\ ~Called(trace', "a.upload_video")
            /\ ~Called(trace', "a.analyze_video")
            /\ ~Called(trace', "a.cleanup_video")
            /\ uploaded_videos' = uploaded_videos]_vars

\* initialize() fails on an analyzer that an earlier run had initialized
C7_Witness ==
    /\ ret.op = "analyze_video"
    /\ Answered(trace, "a.initialize", FALSE)
    /\ ret.status = "raised"
    /\ is_initialized
    /\ uploaded_videos # << >>

\* C8 as stated: cleanup_video called twice in a row on the same handle, or
\* once on a handle that is not tracked, answers true every time, whatever
\* the remote delete does.
C8_AlwaysTrue ==
    [][ret'.op = "a.cleanup_video"
         => /\ ret'.h \notin uploaded_files => ret'.val
            /\ (ret.op = "a.cleanup_video" /\ ret.h = ret'.h)
                   => ret.val /\ ret'.val]_vars

\* C8 as amended: cleanup_video never raises; on a handle that is not
\* tracked (never tracked, or removed by an earlier successful call) it
\* answers true without a remote call; on a tracked handle it answers true
\* exactly when the remote delete succeeds, and the handle stays tracked
\* otherwise; so the second of two calls in a row answers true whenever the
\* first one did.
C8_TrueIffUntrackedAfter ==
    [][ret'.op = "a.cleanup_video"
         => /\ ret'.status = "returned"
            /\ ret'.h \notin uploaded_files
                   => /\ ret'.val
                      /\ trace' = << >>
                      /\ uploaded_files' = uploaded_files
                      /\ remote_files' = remote_files
            /\ ret'.h \in uploaded_files
                   => /\ ret'.val = Answered(trace', "genai.delete_file", TRUE)
                      /\ ret'.val = (ret'.h \notin uploaded_files')
            /\ (ret.op = "a.cleanup_video" /\ ret.h = ret'.h /\ ret.val)
                   => ret'.val]_vars

\* the second call on a handle that the first call removed
C8_Witness ==
    /\ ret.op = "a.cleanup_video"
    /\ ret.val
    /\ trace = << >>
    /\ delete_attempts[ret.h] > 0
    /\ ret.h \notin uploaded_files

\* C9: on an initialized analyzer, upload_video of a path that does not
\* exist or whose suffix is not a supported format makes no remote call,
\* returns None and leaves the analyzer's bookkeeping unchanged.
C9_ValidationBeforeUpload ==
    [][(/\ ret'.op = "a.upload_video"
        /\ is_initialized
        /\ (~ret'.file.exists
               \/ Lower(ret'.file.ext) \notin supported_formats))
         => /\ \A i \in 1..Len(trace') : ~Remote(trace'[i])
            /\ ~ret'.val
            /\ ret'.h = None
            /\ uploaded_files' = uploaded_files
            /\ remote_files' = remote_files
            /\ next_id' = next_id]_vars

\* a file with an unsupported suffix given to an initialized analyzer
C9_Witness ==
    /\ ret.op = "a.upload_video"
    /\ is_initialized
    /\ ret.file.exists
    /\ Lower(ret.file.ext) \notin supported_formats
    /\ Answered(trace, "validate_video_file", FALSE)

\* C10: one allow-list (mp4, avi, mov, mkv, webm, wmv, flv) governs ingest
\* and upload: a posted file with a listed suffix is accepted by the
\* endpoint and by validate_video_file, any other is rejected before
\* slow_down_video, initialize or upload_video start.
AllowList == {"mp4", "avi", "mov", "mkv", "webm", "wmv", "flv"}

C10_OneAllowList ==
    ret.op = "endpoint" /\ ret.err \notin {"No file uploaded",
                                           "Failed to save uploaded file"}
        => IF Lower(ret.file.ext) \in AllowList
           THEN /\ ret.err # "Unsupported file format"
                /\ ~Answered(trace, "validate_video_file", FALSE)
           ELSE /\ ret.status = "raised"
                /\ ret.err = "Unsupported file format"
                /\ trace = << >>

\* C11: an analyzer is ready only from an initialize() that returned true
\* until the next cleanup(); while it is not ready (never initialized, only
\* failed initializations, or cleaned up since), upload_video and
\* analyze_video return None, make no remote call and leave uploaded_files
\* and the remote files as they are; a call of either that succeeds is made
\* on a ready analyzer.
C11_NothingBeforeInitialize ==
    [][/\ (ret.op = "init" => ~is_initialized)
       /\ (is_initialized' /\ ~is_initialized
               => ret'.op = "a.initialize" /\ ret'.val)
       /\ (ret'.op = "a.cleanup" => ~is_initialized')
       /\ (~is_initialized /\ ret'.op \in {"a.upload_video", "a.analyze_video"}
               => /\ ~ret'.val
                  /\ \A i \in 1..Len(trace') : ~Remote(trace'[i])
                  /\ uploaded_files' = uploaded_files
                  /\ remote_files' = remote_files
                  /\ next_id' = next_id)
       /\ (ret'.op \in {"a.upload_video", "a.analyze_video"} /\ ret'.val
               => is_initialized)]_vars

\* upload_video of a valid file on an analyzer that had uploaded a file and
\* was cleaned up since
C11_Witness ==
    /\ ret.op = "a.upload_video"
    /\ ~is_initialized
    /\ next_id > 0
    /\ validate_video_file(ret.file)
    /\ ~ret.val
    /\ trace = << >>

\* C12: a pass over a video of N decodable frames gives N frame records
\* with frame_number 0..N-1 in order, and the timestamp of each is its
\* frame_number divided by the frame rate of the video (fps_c / 100).
C12_FrameRecords ==
    proc.status = "returned"
        => /\ Len(proc.frame_data) = proc.video.n
           /\ \A k \in 1..Len(proc.frame_data) :
                 /\ proc.frame_data[k].frame_number = k - 1
                 /\ RatEq(proc.frame_data[k].timestamp,
                          Rat(100 * (k - 1), proc.video.fps_c))

\* C13: after a completed pass the detection rate is frames_with_pose
\* divided by the number of frames processed (0 when no frame was
\* processed) and lies in [0, 1].
C13_DetectionRate ==
    proc.status = "returned"
        => LET processed == Len(proc.frame_data)
               rate == proc.stats.pose_detection_rate
           IN  /\ IF processed > 0
                  THEN RatEq(rate, Rat(proc.stats.frames_with_pose, processed))
                  ELSE rate.num = 0
               /\ RatLe(Rat(0, 1), rate)
               /\ RatLe(rate, Rat(1, 1))

\* C14: process_video never ends in a division fault, and a pass over a
\* video that opens and in which no call of the decoder, the detector or
\* the writer raises is completed.
C14_NoDivisionFault ==
    /\ proc.err # "ZeroDivisionError"
    /\ (proc.status = "raised" /\ proc.video.opens /\ proc.est_init = FALSE
           /\ proc.video.fault = NoFault
           => proc.err \in {"Failed to initialize pose estimator",
                            "Failed to create pose estimator"})

\* C15: with save_video, the frames written are the frames recorded, in
\* decode order: the k-th written frame comes from the k-th decoded frame
\* and is the annotated copy exactly when a pose was detected in it; a frame
\* without a pose is recorded with pose_detected false; a completed pass
\* has written and recorded every decoded frame.
C15_OneOutputFramePerInput ==
    /\ Len(proc.frame_data) = proc.frame_count
    /\ \A k \in 1..Len(proc.frame_data) :
          proc.frame_data[k].pose_detected = ((k - 1) \in proc.video.poses)
    /\ (proc.status = "returned" => Len(proc.frame_data) = proc.video.n)
    /\ (proc.save_video
          => /\ Len(proc.written) = Len(proc.frame_data)
             /\ \A k \in 1..Len(proc.written) :
                   /\ proc.written[k].src = k - 1
                   /\ proc.written[k].annotated = ((k - 1) \in proc.video.poses))
    /\ (~proc.save_video => proc.written = << >>)

\* a completed pass in which a frame without a pose was followed by a frame
\* with one
C15_Witness ==
    /\ proc.status = "returned"
    /\ proc.save_video
    /\ Len(proc.written) >= 2
    /\ ~proc.written[1].annotated
    /\ ~proc.frame_data[1].pose_detected
    /\ proc.written[2].annotated

\* C16: when process_video raises after the detector was initialized, the
\* decoder and the writer are released and the detector is no longer
\* initialized.
C16_ReleasedOnError ==
    proc.status = "raised"
        /\ proc.err \notin {"Video file not found",
                            "Failed to initialize pose estimator",
                            "Failed to create pose estimator"}
        => /\ ~proc.cap_open
           /\ ~proc.writer_open
           /\ ~proc.est_init

\* C17: in both factories, creation by a name that differs from a
\* registered name in the case of letters only gives an instance of the
\* class registered under it, creation by any other name gives None, and
\* the registry is unchanged; register with a class that does not implement
\* the interface raises and leaves the registry unchanged; after register
\* with a class that does, creation by every case variant of the name gives
\* an instance of that class.
SameLetters(a, b) ==
    /\ Len(a) = Len(b)
    /\ \A i \in 1..Len(a) : LowerChar(a[i]) = LowerChar(b[i])

Implements(class, base) == class.base = base /\ ~class.abstract

CreatedFrom(registry, name, status, val) ==
    /\ status = "returned"
    /\ \A k \in DOMAIN registry : SameLetters(k, name) => val = registry[k].name
    /\ ((\A k \in DOMAIN registry : ~SameLetters(k, name)) => val = "None")

C17_Registries ==
    [][/\ (reg'.op = "create_estimator"
             => /\ CreatedFrom(reg.models, reg'.name, reg'.status, reg'.val)
                /\ reg'.models = reg.models)
       /\ (reg'.op = "create_analyzer"
             => /\ CreatedFrom(reg.analyzers, reg'.name, reg'.status, reg'.val)
                /\ reg'.analyzers = reg.analyzers)
       /\ (reg'.op = "register_model"
             => IF Implements(reg'.class, "PoseEstimatorBase")
                THEN /\ reg'.status = "returned"
                     /\ \A v \in CaseVariants(reg'.name) :
                           create_estimator(reg'.models, v).val = reg'.class.name
                ELSE /\ reg'.status = "raised"
                     /\ reg'.models = reg.models)
       /\ (reg'.op = "register_analyzer"
             => IF Implements(reg'.class, "VideoAnalyzerBase")
                THEN /\ reg'.status = "returned"
                     /\ \A v \in CaseVariants(reg'.name) :
                           create_analyzer(reg'.analyzers, v).val = reg'.class.name
                ELSE /\ reg'.status = "raised"
                     /\ reg'.analyzers = reg.analyzers)]_vars

\* C18: timestamp_to_seconds returns a float for every input and never
\* raises: "0:04" gives 4.0, "1:02:03" gives 3723.0, "12.5" gives 12.5, and
\* "abc", a string with more than two ':', a string with an empty field and
\* a value that is not a string give 0.0.
C18_NumberNeverRaises ==
    call.fn = "timestamp_to_seconds" /\ call.status # "pending"
        => LET chars == call.timestamp.chars
               parts == Split(chars, ":")
           IN  /\ call.status = "returned"
               /\ call.type = "float"
               /\ (chars = <<"0", ":", "0", "4">> => RatEq(call.val, Rat(4, 1)))
               /\ (chars = <<"1", ":", "0", "2", ":", "0", "3">>
                      => RatEq(call.val, Rat(3723, 1)))
               /\ (chars = <<"1", "2", ".", "5">> => RatEq(call.val, Rat(25, 2)))
               /\ (\/ call.timestamp.type # "str"
                   \/ Len(parts) > 3
                   \/ \E i \in 1..Len(parts) :
                         parts[i] = << >> \/ parts[i] = <<"a", "b", "c">>
                      => RatEq(call.val, Rat(0, 1)))

\* C19: the seconds timestamp_to_seconds returns for a string are not
\* negative.
C19_NonNegative ==
    (/\ call.fn = "timestamp_to_seconds"
     /\ call.status = "returned"
     /\ call.timestamp.type = "str"
     /\ call.type = "float")
        => call.val.num >= 0

\* C20: with fps > 0 and total_frames >= 1, the frame number that
\* extract_frame_at_timestamp seeks is floor(seconds * fps) brought into
\* [0, total_frames - 1]: fps 30, 300 frames, 15 s gives 299 and -1 s
\* gives 0.
Floor(x) == x.num \div x.den

Max(a, b) == IF a >= b THEN a ELSE b

Min(a, b) == IF a <= b THEN a ELSE b

C20_FrameIndexClamped ==
    (/\ call.fn = "extract_frame_at_timestamp"
     /\ call.status = "returned"
     /\ call.set
     /\ call.fps_c > 0
     /\ call.total_frames >= 1)
        => /\ call.sought =
                  Min(Max(Floor(Rat(call.seconds.num * call.fps_c,
                                    call.seconds.den * 100)), 0),
                      call.total_frames - 1)
           /\ call.sought \in 0..(call.total_frames - 1)
           /\ (call.fps_c = 3000 /\ call.total_frames = 300
                  => /\ call.seconds = Rat(15, 1) => call.sought = 299
                     /\ call.seconds = Rat(0 - 1, 1) => call.sought = 0)

\* 15 s asked of a clip of 300 frames at 30 frames per second
C20_Witness ==
    /\ call.fn = "extract_frame_at_timestamp"
    /\ call.status = "returned"
    /\ call.set
    /\ call.fps_c = 3000
    /\ call.total_frames = 300
    /\ call.seconds = Rat(15, 1)
    /\ call.sought = 299
    /\ call.ok

\* C21: whatever text the analyzer returns, parse_analysis_json_and_extract_
\* frames returns without raising and the endpoint answers success; for a
\* text that is not JSON, is not an object, has no 'phases', whose 'phases'
\* is not a mapping or whose phase entries have no frame_timestamp, the map
\* is empty and the response carries no extraction map.
Malformed(text) ==
    \/ ~text.parses
    \/ text.kind # "object"
    \/ ~text.has_phases
    \/ text.phases_kind # "object"
    \/ \A i \in 1..Len(text.entries) :
          ~(text.entries[i].is_dict /\ text.entries[i].has_timestamp)

C21_MalformedAnalysisSkipped ==
    ret.op = "endpoint" /\ Answered(trace, "a.analyze_video", TRUE)
        => /\ call.fn = "parse_analysis_json_and_extract_frames"
           /\ call.status = "returned"
           /\ ret.status = "returned"
           /\ ret.val
           /\ ret.extracted_frames = (call.frames # {})
           /\ (Malformed(call.text) => call.frames = {})

\* the analysis is an object whose 'phases' is a list: phases.items() fails,
\* the request succeeds without an extraction map
C21_Witness ==
    /\ ret.op = "endpoint"
    /\ ret.val
    /\ ~ret.extracted_frames
    /\ call.fn = "parse_analysis_json_and_extract_frames"
    /\ call.text.phases_kind = "array"
    /\ call.error = "AttributeError"

\* C22: a rotation that is a multiple of 90 degrees, given as a display
\* matrix rotation or as a rotate tag, is resolved to one of 0, 90, 180 and
\* 270; slow_down_video turns every frame by the equivalent of the resolved
\* rotation, and the output is (height, width) exactly when that is 90 or
\* 270 (for 0 the frames and the size are as in the input).
Carried(probe) ==
    /\ probe.runs
    /\ probe.returncode = 0
    /\ \E i \in 1..Len(probe.streams) :
          \/ probe.streams[i].matrix
          \/ probe.streams[i].tagged /\ int(probe.streams[i].rotate).ok

C22_RotationNormalized ==
    /\ (call.fn = "get_video_rotation" /\ call.status = "returned"
          /\ Carried(call.probe)
            => call.rotation \in {0, 90, 180, 270})
    /\ (call.fn = "slow_down_video" /\ call.status = "returned" /\ call.val
            => LET angle == call.rotation % 360
               IN  /\ \A i \in 1..Len(call.written) :
                          call.written[i].turned = angle
                   /\ call.size =
                          (IF angle \in {90, 270}
                           THEN <<call.video.height, call.video.width>>
                           ELSE <<call.video.width, call.video.height>>))

\* C23: for a video of N frames that decode and a slow factor above zero,
\* slow_down_video returns True having written the N frames, each once and
\* in the order read, to a writer whose frame rate times the slow factor is
\* the frame rate of the input.
C23_EveryFrameOnce ==
    call.fn = "slow_down_video" /\ call.status = "returned"
      /\ call.video.opens /\ call.video.fault >= call.video.n
      /\ call.slow_factor.num > 0
        => /\ call.val
           /\ call.made
           /\ Len(call.written) = call.video.n
           /\ \A i \in 1..Len(call.written) : call.written[i].src = i - 1
           /\ RatEq(Rat(call.new_fps.num * call.slow_factor.num,
                        call.new_fps.den * call.slow_factor.den),
                    Rat(call.video.fps_c, 100))

\* three frames at 29.97 frames per second slowed four times, each turned
\* by 90 degrees
C23_Witness ==
    /\ call.fn = "slow_down_video"
    /\ call.status = "returned"
    /\ call.val
    /\ call.video.fps_c = 2997
    /\ call.slow_factor = Rat(4, 1)
    /\ call.new_fps = Rat(2997, 400)
    /\ call.rotation = 90
    /\ Len(call.written) = 3
    /\ \A i \in 1..3 : call.written[i] = Frame(i - 1, 90, 1080, 1920)

\* C24: when analyze_video is given context that yields additional data (a
\* readable keypoints file, non-empty custom data), the analyzer is called
\* with that data and the result says additional_data_provided; the result
\* says it is not provided when neither a keypoints path nor custom data
\* was given.
C24_ContextPassedOn ==
    ret.op = "analyze_video" /\ Answered(trace, "a.analyze_video", TRUE)
        => LET given == prepare_additional_data(ret.context.keypoints_json,
                                                ret.context.custom_data)
           IN  /\ (given.keys # {}
                     => /\ ret.additional_data = given
                        /\ ret.additional_data_provided)
               /\ (ret.context.keypoints_json = "None"
                     /\ ret.context.custom_data = NoData
                     => ~ret.additional_data_provided)

\* C25: every upload_video call returns: a pipeline that is in the polling
\* loop of upload_video leaves it, also when the remote service keeps the
\* file in the state PROCESSING.
C25_UploadReturns ==
    \A i \in Instances :
        (fleet.a[i].pc = "polling") ~> (fleet.a[i].pc # "polling")

\* C29: every remote call of a pipeline is made with the API key of its own
\* analyzer, and the handles a pipeline and its analyzer track were uploaded
\* by that instance.
C29_OwnCredentials ==
    /\ (fleet.last.by \in Instances
          => fleet.last.key = fleet.a[fleet.last.by].api_key)
    /\ \A i \in Instances :
          \A h \in fleet.a[i].uploaded_files
                     \cup Range(fleet.a[i].uploaded_videos) :
              fleet.files[h].by = i

\* C26: in every operation of the pipeline an analyze call is issued only
\* for a handle that an upload earlier in the same operation has returned,
\* once, before any cleanup of it (the handle did not exist before the
\* operation, and nothing had tried to delete it); cleanup() issues no
\* analyze call; and the analyzer, asked to analyze a handle it does not
\* track, returns no result and makes no remote call.
C26_HandleLifecycle ==
    [][/\ (ret'.op = "analyze_video" =>
             \A j \in 1..Len(trace') :
                trace'[j].op = "a.analyze_video" =>
                   /\ trace'[j].h > next_id
                   /\ delete_attempts[trace'[j].h] = 0
                   /\ \E i \in 1..(j - 1) :
                         /\ trace'[i].op = "a.upload_video"
                         /\ trace'[i].ok
                         /\ trace'[i].h = trace'[j].h
                   /\ \A i \in 1..Len(trace') :
                         /\ (i # j => ~(/\ trace'[i].op = "a.analyze_video"
                                        /\ trace'[i].h = trace'[j].h))
                         /\ (i < j => ~(/\ trace'[i].op = "a.cleanup_video"
                                        /\ trace'[i].h = trace'[j].h)))
       /\ (ret'.op = "cleanup" => ~Called(trace', "a.analyze_video"))
       /\ (ret'.op = "a.analyze_video" /\ ret'.h \notin uploaded_files
             => ~ret'.val /\ trace' = << >>)]_vars

\* the analyzer is initialized and is asked to analyze a handle that an
\* earlier operation has uploaded, analyzed and cleaned up
C26_Witness ==
    /\ ret.op = "a.analyze_video"
    /\ is_initialized
    /\ ret.h \in 1..next_id
    /\ ret.h \notin uploaded_files
    /\ delete_attempts[ret.h] > 0
    /\ ~ret.val
    /\ trace = << >>

\* C27: after a pass of process_video, frames_with_pose is the number of
\* frame records with pose_detected true, and a record has pose_detected
\* true exactly when its pose_data is not null and (with save_video) the
\* frame written for it was annotated, also for a detector that gives
\* results that are not null and are empty.
C27_PoseFlagConsistent ==
    proc.status = "returned"
        => /\ proc.stats.frames_with_pose =
                 Cardinality({ k \in 1..Len(proc.frame_data) :
                                 proc.frame_data[k].pose_detected })
           /\ \A k \in 1..Len(proc.frame_data) :
                 proc.frame_data[k].pose_detected
                     <=> /\ proc.frame_data[k].pose_data # "None"
                         /\ (proc.save_video => proc.written[k].annotated)

\* C28: the dictionary batch_analyze returns has one entry per
\* configuration of the list, and the outcome recorded for every
\* configuration (analysis or error) can be read back from it.
C28_OneEntryPerConfig ==
    ret.op = "batch_analyze"
        => /\ Cardinality({ stem \in Stems : batch.results[stem] # "absent" })
                 = batch.n
           /\ \A j \in 1..batch.n :
                 batch.results[batch.configs[j].stem] = batch.log[j].kind

\* a timestamp of the form M:SS or H:MM:SS whose fields are numbers
WellFormedTimestamp(timestamp) ==
    /\ timestamp.type = "str"
    /\ LET parts == Split(timestamp.chars, ":")
       IN  /\ Len(parts) \in {2, 3}
           /\ \A k \in 1..Len(parts) : float(parts[k]).ok

\* the positions of the entries that carry a frame_timestamp
CarryTimestamp(entries) ==
    { i \in 1..Len(entries) : entries[i].is_dict /\ entries[i].has_timestamp }

\* C30: for an analysis with a 'phases' mapping, extraction is attempted
\* exactly once for every phase entry that carries a frame_timestamp,
\* whatever the other entries are; a phase whose timestamp is malformed or
\* not a string, or whose frame cannot be extracted, is left out of the
\* returned map without ending the extraction for the phases after it, and
\* every phase of the returned map has a frame that was written.
C30_EveryPhaseAttempted ==
    (/\ call.fn = "parse_analysis_json_and_extract_frames"
     /\ call.status = "returned"
     /\ call.text.parses
     /\ call.text.kind = "object"
     /\ call.text.has_phases
     /\ call.text.phases_kind = "object"
     /\ call.text.mkdir_ok)
        => LET entries == call.text.entries
               good == { i \in CarryTimestamp(entries) :
                           /\ WellFormedTimestamp(entries[i].timestamp)
                           /\ entries[i].out = "ok" }
           IN  /\ { call.attempts[k] : k \in 1..Len(call.attempts) }
                     = { i \in CarryTimestamp(entries) :
                           entries[i].timestamp.type = "str" }
               /\ \A k, l \in 1..Len(call.attempts) :
                     k # l => call.attempts[k] # call.attempts[l]
               /\ call.frames = good

====
